---- MODULE Spec2Model ----
(***************************************************************************)
(* A model of the ARIN Reg-RWS payload classes (tools/arin/payloads.py),   *)
(* the registry client (tools/arin/arin.py) and the simple-reassignment    *)
(* workflow (netbox-cli.py).                                               *)
(*                                                                         *)
(* Python values are tagged records, XML documents are element trees, and  *)
(* xmltodict's unparse/parse are the operators Unparse/Parse below.        *)
(***************************************************************************)
EXTENDS Integers, Sequences, FiniteSets, TLC

VARIABLES
    pc,       \* position of the running scenario
    call,     \* the last call made: its name and arguments
    self,     \* the payload object at hand (None when there is none)
    doc,      \* the document at hand: a serialized payload or a response body
    ret,      \* outcome of the last call: a returned value or a raised exception
    http,     \* the HTTP requests issued so far, in order
    log,      \* the records written by logger.error(...)
    flow      \* the state of the reassignment workflow (prefix, settings, locals)

vars == <<pc, call, self, doc, ret, http, log, flow>>

(***************************************************************************)
(* Python values                                                           *)
(***************************************************************************)
None == [ty |-> "None"]
PyStr(s) == [ty |-> "str", v |-> s]
PyInt(n) == [ty |-> "int", n |-> n]
PyBool(b) == [ty |-> "bool", b |-> b]
PyList(items) == [ty |-> "list", items |-> items]
\* an insertion-ordered dict: a sequence of <<key, value>> with distinct keys
PyDict(kv) == [ty |-> "dict", kv |-> kv]

\* bool(v), as used by `if v:` and `not v`
Truthy(v) ==
    CASE v.ty = "None" -> FALSE
      [] v.ty = "bool" -> v.b
      [] v.ty = "str" -> v.v /= ""
      [] v.ty = "int" -> v.n /= 0
      [] v.ty = "list" -> v.items /= <<>>
      [] v.ty = "dict" -> v.kv /= <<>>
      [] OTHER -> TRUE

\* the outcome of a call
Return(v) == [ok |-> TRUE, val |-> v]
Raise(e, msg) == [ok |-> FALSE, exc |-> e, msg |-> msg]

HasKey(d, k) == \E i \in 1..Len(d.kv) : d.kv[i][1] = k
Lookup(d, k) == d.kv[CHOOSE i \in 1..Len(d.kv) : d.kv[i][1] = k][2]

\* d[k] = v
SetItem(d, k, v) ==
    IF HasKey(d, k)
    THEN PyDict([i \in 1..Len(d.kv) |-> IF d.kv[i][1] = k THEN <<k, v>> ELSE d.kv[i]])
    ELSE PyDict(Append(d.kv, <<k, v>>))

\* OrderedDict(pairs): a repeated key keeps its first place and its last value
OrderedDict(pairs) ==
    CHOOSE d \in
        { LET n == Len(p)
              firsts == SelectSeq([i \in 1..n |-> i],
                                  LAMBDA i : \A j \in 1..(i - 1) : p[j][1] /= p[i][1])
              last(k) == CHOOSE i \in 1..n :
                            p[i][1] = k /\ \A j \in (i + 1)..n : p[j][1] /= k
          IN PyDict([m \in 1..Len(firsts) |->
                       <<p[firsts[m]][1], p[last(p[firsts[m]][1])][2]>>]) :
          p \in {pairs} } : TRUE

\* v[k] for a string key k
Subscript(v, k) ==
    IF v.ty = "dict"
    THEN IF HasKey(v, k) THEN Return(Lookup(v, k)) ELSE Raise("KeyError", k)
    ELSE Raise("TypeError", k)

\* v.get(k)
Get(v, k) ==
    IF v.ty = "dict"
    THEN IF HasKey(v, k) THEN Return(Lookup(v, k)) ELSE Return(None)
    ELSE Raise("AttributeError", "get")

\* str(v) for the scalars the payloads hold
Unicode(v) ==
    CASE v.ty = "str" -> v.v
      [] v.ty = "int" -> ToString(v.n)
      [] v.ty = "None" -> "None"
      [] OTHER -> "?"

(***************************************************************************)
(* XML documents: an element is [tag, attrs, kids, text]; attrs is a       *)
(* sequence of <<name, value>>, kids a sequence of elements, text the      *)
(* character data ("" when there is none).                                 *)
(***************************************************************************)
Element(tag, attrs, kids, text) ==
    [tag |-> tag, attrs |-> attrs, kids |-> kids, text |-> text]

CoreNS == "http://www.arin.net/regrws/core/v1"

\* xmltodict's attr_prefix: the dict keys that are attributes, and their names
IsAttrKey(k) == k \in {"@xmlns", "@number"}
AttrName(k) == IF k = "@xmlns" THEN "xmlns" ELSE "number"
AttrKey(n) == IF n = "xmlns" THEN "@xmlns" ELSE "@number"
CDataKey == "#text"

RECURSIVE Concat(_)
Concat(seqs) == IF seqs = <<>> THEN <<>> ELSE Head(seqs) \o Concat(Tail(seqs))

\* xmltodict._emit, the value normalised to a dict: None is an empty element, a
\* bool is 'true'/'false', any other non-dict its str()
EmitDict(v) ==
    CASE v.ty = "None" -> PyDict(<<>>)
      [] v.ty = "dict" -> v
      [] v.ty = "bool" -> PyDict(<< <<CDataKey, PyStr(IF v.b THEN "true" ELSE "false")>> >>)
      [] OTHER -> PyDict(<< <<CDataKey, PyStr(Unicode(v))>> >>)

\* xmltodict._emit(key, value): the elements written for one dict entry. A list
\* writes one element per item, anything else one element; the characters are
\* written only when the '#text' entry is not None (and is not empty).
RECURSIVE Emit(_, _)
Emit(key, value) ==
    LET items == IF value.ty = "list" THEN value.items ELSE <<value>>
        One(v) ==
            LET d == EmitDict(v)
                attrs == SelectSeq(d.kv, LAMBDA p : IsAttrKey(p[1]))
                children == SelectSeq(d.kv, LAMBDA p : ~IsAttrKey(p[1]) /\ p[1] /= CDataKey)
                cdata == IF HasKey(d, CDataKey) THEN Lookup(d, CDataKey) ELSE None
            IN Element(key,
                       [i \in 1..Len(attrs) |-> <<AttrName(attrs[i][1]), Unicode(attrs[i][2])>>],
                       Concat([i \in 1..Len(children) |-> Emit(children[i][1], children[i][2])]),
                       IF cdata.ty = "None" THEN "" ELSE Unicode(cdata))
    IN [i \in 1..Len(items) |-> One(items[i])]

\* xmltodict.unparse(input_dict, full_document=False): the sequence of root elements
Unparse(input_dict) ==
    Concat([i \in 1..Len(input_dict.kv) |-> Emit(input_dict.kv[i][1], input_dict.kv[i][2])])

\* _DictSAXHandler.push_data(item, key, data): a repeated key becomes a list
PushData(item, key, data) ==
    IF HasKey(item, key)
    THEN LET old == Lookup(item, key)
         IN SetItem(item, key,
                    IF old.ty = "list" THEN PyList(Append(old.items, data))
                    ELSE PyList(<<old, data>>))
    ELSE SetItem(item, key, data)

\* _DictSAXHandler.endElement: the value an element parses to. An element with
\* neither attributes nor children is its text, or None when it has none; any
\* other element is a dict of '@attr' entries, children and, when there are
\* characters, '#text'.
RECURSIVE ParseElement(_), PushAll(_, _)
PushAll(item, kids) ==
    IF kids = <<>> THEN item
    ELSE PushAll(PushData(item, Head(kids).tag, ParseElement(Head(kids))), Tail(kids))

ParseElement(e) ==
    LET start == PyDict([i \in 1..Len(e.attrs) |-> <<AttrKey(e.attrs[i][1]), PyStr(e.attrs[i][2])>>])
        item == PushAll(start, e.kids)
    IN IF e.attrs = <<>> /\ e.kids = <<>>
       THEN IF e.text = "" THEN None ELSE PyStr(e.text)
       ELSE IF e.text = "" THEN item ELSE PushData(item, CDataKey, PyStr(e.text))

\* A Python str that holds the XML document with root element e; any other text
\* is a PyStr.
PyXml(e) == [ty |-> "xml", root |-> e]

\* xmltodict.parse(xml): the one-entry dict of the root element, or expat's
\* error for text that is not a document
Parse(xml) ==
    IF xml.ty = "xml"
    THEN Return(PyDict(<< <<xml.root.tag, ParseElement(xml.root)>> >>))
    ELSE Raise("ExpatError", "syntax error")

\* v[k1][k2]...: the first subscript that fails decides
RECURSIVE Path(_, _)
Path(v, keys) ==
    IF keys = <<>> THEN Return(v)
    ELSE LET r == Subscript(v, Head(keys))
         IN IF r.ok THEN Path(r.val, Tail(keys)) ELSE r

\* the first failed outcome of a sequence of outcomes, in statement order
FirstRaise(steps) ==
    steps[CHOOSE i \in 1..Len(steps) :
            ~steps[i].ok /\ \A j \in 1..(i - 1) : steps[j].ok]
AllOk(steps) == \A i \in 1..Len(steps) : steps[i].ok


(***************************************************************************)
(* tools/arin/payloads.py                                                  *)
(***************************************************************************)

\* ArinPayload.__init__(*args, **kwargs): _parse_args sets every field from its
\* position (None past the end of args), _parse_kwargs then gives a field that
\* is None the keyword's value (None when the keyword is absent).
ArinPayload__init__(cls, fields, args, kwargs) ==
    LET names == {fields[i] : i \in 1..Len(fields)}
        pos(f) == CHOOSE i \in 1..Len(fields) : fields[i] = f
        positional(f) == IF pos(f) <= Len(args) THEN args[pos(f)] ELSE None
        keyword(f) == IF HasKey(kwargs, f) THEN Lookup(kwargs, f) ELSE None
    IN [f \in names \cup {"ty"} |->
          IF f = "ty" THEN cls
          ELSE IF positional(f) = None THEN keyword(f) ELSE positional(f)]

CustomerPayload_fields ==
    << "customer_name", "iso3166_1_name", "iso3166_1_code2", "iso3166_1_code3",
       "iso3166_1_e164", "street_address", "city", "iso3166_2", "postal_code",
       "comment", "parent_org_handle", "private_customer", "handle",
       "registration_date" >>

CustomerPayload__init__(args, kwargs) ==
    ArinPayload__init__("CustomerPayload", CustomerPayload_fields, args, kwargs)

\* the OrderedDict([('line', {'@number': n, '#text': text})]) of a free-text field
NumberedLine(n, text) ==
    OrderedDict(<< <<"line", PyDict(<< <<"@number", PyStr(n)>>, <<CDataKey, text>> >>)>> >>)

\* CustomerPayload.schema
CustomerPayload_schema(p) ==
    PyDict(<< <<"customer", PyDict(<<
        <<"@xmlns", PyStr(CoreNS)>>,
        <<"city", p.city>>,
        <<"iso3166-1", PyDict(<<
            <<"code2", p.iso3166_1_code2>>,
            <<"code3", p.iso3166_1_code3>>,
            <<"e164", p.iso3166_1_e164>>,
            <<"name", p.iso3166_1_name>> >>)>>,
        <<"handle", p.handle>>,
        <<"streetAddress", NumberedLine("1", p.street_address)>>,
        <<"customerName", p.customer_name>>,
        <<"parentOrgHandle", p.parent_org_handle>>,
        <<"comment", NumberedLine("1", p.comment)>>,
        <<"postalCode", p.postal_code>>,
        <<"privateCustomer", p.private_customer>>,
        <<"registrationDate", p.registration_date>>,
        <<"iso3166-2", p.iso3166_2>> >>)>> >>)

\* CustomerPayload.from_xml(xml): every child but comment is read with
\* document_root[...]; comment is read only when document_root.get('comment')
\* is truthy.
CustomerPayload_from_xml(xml) ==
    LET document == Parse(xml)
    IN IF ~document.ok THEN document
       ELSE LET root == Subscript(document.val, "customer")
            IN IF ~root.ok THEN root
               ELSE
    LET r == root.val
        hasComment == Get(r, "comment")
        comment == IF hasComment.ok /\ Truthy(hasComment.val)
                   THEN Path(r, <<"comment", "line", CDataKey>>)
                   ELSE IF hasComment.ok THEN Return(None) ELSE hasComment
        steps == << Subscript(r, "customerName"),
                    Path(r, <<"iso3166-1", "name">>),
                    Path(r, <<"iso3166-1", "code2">>),
                    Path(r, <<"iso3166-1", "code3">>),
                    Path(r, <<"iso3166-1", "e164">>),
                    Path(r, <<"streetAddress", "line", CDataKey>>),
                    Subscript(r, "city"),
                    Subscript(r, "iso3166-2"),
                    Subscript(r, "postalCode"),
                    comment,
                    Subscript(r, "parentOrgHandle"),
                    Subscript(r, "privateCustomer"),
                    Subscript(r, "handle"),
                    Subscript(r, "registrationDate") >>
    IN IF ~AllOk(steps) THEN FirstRaise(steps)
       ELSE Return([ty |-> "CustomerPayload",
                    customer_name |-> steps[1].val,
                    iso3166_1_name |-> steps[2].val,
                    iso3166_1_code2 |-> steps[3].val,
                    iso3166_1_code3 |-> steps[4].val,
                    iso3166_1_e164 |-> steps[5].val,
                    street_address |-> steps[6].val,
                    city |-> steps[7].val,
                    iso3166_2 |-> steps[8].val,
                    postal_code |-> steps[9].val,
                    comment |-> steps[10].val,
                    parent_org_handle |-> steps[11].val,
                    private_customer |-> steps[12].val,
                    handle |-> steps[13].val,
                    registration_date |-> steps[14].val])

valid_types ==
    {"A", "AF", "AP", "AR", "AV", "DA", "DS", "FX", "IR", "IU",
     "LN", "LX", "PV", "PX", "RD", "RN", "RV", "RX", "S"}

\* NetBlockPayload.__init__: both checks test truthiness (`if net_type and ...`,
\* `if end_address and cidr_length`)
NetBlockPayload__init__(start_address, description, end_address, cidr_length, net_type, version) ==
    IF Truthy(net_type) /\ ~(net_type.ty = "str" /\ net_type.v \in valid_types)
    THEN Raise("PayloadException", "Invalid net_type")
    ELSE IF Truthy(end_address) /\ Truthy(cidr_length)
    THEN Raise("PayloadException",
               "Only one of the endAddress or the cidrLength fields are required; not both")
    ELSE Return([ty |-> "NetBlockPayload",
                 version |-> version,
                 net_type |-> net_type,
                 description |-> description,
                 start_address |-> start_address,
                 end_address |-> end_address,
                 cidr_length |-> cidr_length])

\* NetBlockPayload.schema: type, endAddress, cidrLength and version are entered
\* only when truthy
NetBlockPayload_schema(p) ==
    LET opt(key, v) == IF Truthy(v) THEN << <<key, v>> >> ELSE <<>>
    IN PyDict(<< <<"netBlock", PyDict(
           << <<"@xmlns", PyStr(CoreNS)>>,
              <<"description", p.description>>,
              <<"startAddress", p.start_address>> >>
           \o opt("type", p.net_type)
           \o opt("endAddress", p.end_address)
           \o opt("cidrLength", p.cidr_length)
           \o opt("version", p.version))>> >>)

\* NetPayload.__init__: stores its arguments, checks nothing
NetPayload__init__(version, comment, parent_net_handle, net_name, origin_ases, net_blocks, handle, registration_date, org_handle, customer_handle, poc_links) ==
    Return([ty |-> "NetPayload",
            version |-> version,
            comment |-> comment,
            org_handle |-> org_handle,
            customer_handle |-> customer_handle,
            parent_net_handle |-> parent_net_handle,
            net_name |-> net_name,
            origin_ases |-> origin_ases,
            net_blocks |-> net_blocks,
            handle |-> handle,
            registration_date |-> registration_date,
            poc_links |-> poc_links])

\* NetPayload.schema, lines 277-281: the property first replaces a falsy
\* origin_ases / poc_links of the object by an empty list
NetPayload_schema_self(p) ==
    [p EXCEPT !.origin_ases = IF ~Truthy(p.origin_ases) THEN PyList(<<>>) ELSE p.origin_ases,
              !.poc_links = IF ~Truthy(p.poc_links) THEN PyList(<<>>) ELSE p.poc_links]

\* NetPayload.schema, lines 283-311: the dict returned (iterating net_blocks
\* raises TypeError when it is None). originASes is an OrderedDict built from one
\* ('originAS', a) pair per origin AS; orgHandle and customerHandle are entered
\* only when truthy.
NetPayload_schema(p) ==
    LET q == NetPayload_schema_self(p)
        opt(key, v) == IF Truthy(v) THEN << <<key, v>> >> ELSE <<>>
    IN IF q.net_blocks.ty /= "list" THEN Raise("TypeError", "net_blocks")
       ELSE Return(PyDict(<< <<"net", PyDict(
           << <<"@xmlns", PyStr(CoreNS)>>,
              <<"version", q.version>>,
              <<"comment", NumberedLine("0", q.comment)>>,
              <<"registrationDate", q.registration_date>>,
              <<"handle", q.handle>>,
              <<"netBlocks", PyList([i \in 1..Len(q.net_blocks.items) |->
                                        NetBlockPayload_schema(q.net_blocks.items[i])])>>,
              <<"parentNetHandle", q.parent_net_handle>>,
              <<"netName", q.net_name>>,
              <<"originASes", OrderedDict([i \in 1..Len(q.origin_ases.items) |->
                                              <<"originAS", q.origin_ases.items[i]>>])>>,
              <<"pocLinks", q.poc_links>> >>
           \o opt("orgHandle", q.org_handle)
           \o opt("customerHandle", q.customer_handle))>> >>))

\* the items a `for` loop draws from a parsed value (the keys of a dict)
IterItems(v) ==
    CASE v.ty = "list" -> v.items
      [] v.ty = "dict" -> [i \in 1..Len(v.kv) |-> PyStr(v.kv[i][1])]
      [] OTHER -> <<v>>

\* NetPayload.from_xml(xml): version, parentNetHandle, netName, handle and
\* registrationDate are read with document_root[...]; comment, customerHandle
\* and orgHandle only when .get(...) is truthy; the origin ASes and net blocks
\* are looked up under the keys 'origin_ases' and 'net_blocks'.
NetPayload_from_xml(xml) ==
    LET document == Parse(xml)
    IN IF ~document.ok THEN document
       ELSE LET root == Subscript(document.val, "net")
            IN IF ~root.ok THEN root
               ELSE
    LET r == root.val
        cond(key, path) ==
            LET g == Get(r, key)
            IN IF ~g.ok THEN g
               ELSE IF Truthy(g.val) THEN Path(r, path) ELSE Return(None)
        ases == LET g == Get(r, "origin_ases")
                IN IF ~g.ok THEN g
                   ELSE IF ~Truthy(g.val) THEN Return(PyList(<<>>))
                   ELSE LET a == Path(r, <<"origin_ases", "originAS">>)
                        IN IF a.ok THEN Return(PyList(IterItems(a.val))) ELSE a
        blocks == LET g == Get(r, "net_blocks")
                  IN IF ~g.ok THEN g
                     ELSE IF ~Truthy(g.val) THEN Return(PyList(<<>>))
                     ELSE Raise("NotImplementedError", "NetBlockPayload.from_xml")
        steps == << Subscript(r, "version"),
                    cond("comment", <<"comment", "line", CDataKey>>),
                    Subscript(r, "parentNetHandle"),
                    Subscript(r, "netName"),
                    cond("customerHandle", <<"customerHandle">>),
                    cond("orgHandle", <<"orgHandle">>),
                    Subscript(r, "handle"),
                    Subscript(r, "registrationDate"),
                    ases,
                    blocks >>
    IN IF ~AllOk(steps) THEN FirstRaise(steps)
       ELSE Return([ty |-> "NetPayload",
                    version |-> steps[1].val,
                    comment |-> steps[2].val,
                    org_handle |-> steps[6].val,
                    customer_handle |-> steps[5].val,
                    parent_net_handle |-> steps[3].val,
                    net_name |-> steps[4].val,
                    origin_ases |-> steps[9].val,
                    net_blocks |-> steps[10].val,
                    handle |-> steps[7].val,
                    registration_date |-> steps[8].val,
                    poc_links |-> None])

\* ArinPayload.__str__: xmltodict.unparse(self.schema, full_document=False); a
\* schema has one root, so the text is one document
ArinPayload__str__(schema) ==
    IF schema.ok THEN Return(PyXml(Unparse(schema.val)[1])) ELSE schema


(***************************************************************************)
(* The payload scenarios: construct a payload, serialize it with str(),    *)
(* parse a document with from_xml.                                         *)
(***************************************************************************)
MaxOriginASes == 2
MaxNetBlocks == 2
MaxMissing == 2

\* the sequences over S of length at most n
SeqsUpTo(S, n) == UNION {[1..k -> S] : k \in 0..n}

StartAddresses == {PyStr("10.1.1.0")}
Descriptions == {PyStr("Customer Allocation")}
EndAddresses == {None, PyStr("10.1.1.255")}
CidrLengths == {None, PyInt(0), PyInt(24)}
NetTypes == {None, PyStr(""), PyStr("LN"), PyStr("ZZ")}
BlockVersions == {None, PyStr("4")}

\* the net blocks a net is given: blocks that NetBlockPayload.__init__ returns
SomeNetBlocks ==
    {NetBlockPayload__init__(PyStr("10.1.1.0"), PyStr("Customer Allocation"),
                             None, PyInt(24), None, None).val}

Comments == {None, PyStr(""), PyStr("NOC 24/7")}
OriginASLists == {None} \cup {PyList(s) : s \in SeqsUpTo({PyStr("AS64500"), PyStr("AS64501")}, MaxOriginASes)}
NetBlockLists == {None} \cup {PyList(s) : s \in SeqsUpTo(SomeNetBlocks, MaxNetBlocks) \ {<<>>}}
OrgHandles == {None, PyStr(""), PyStr("ORG-1")}
CustomerHandles == {None, PyStr(""), PyStr("C0000001")}
\* handle and registration_date: left unset, or as the server assigned them
ServerAssigned == {<<None, None>>, <<PyStr("NET-10-1-1-0-1"), PyStr("2019-05-01")>>}
PocLinkLists == {None, PyList(<<>>)}

Cities == {None, PyStr(""), PyStr("Montreal")}
StreetAddresses == {PyStr(""), PyStr("1 Main St")}
PrivateFlags == {None, PyStr("true")}
CustomerServerAssigned == {<<>>, <<PyStr("C0000001"), PyStr("2019-05-01")>>}

\* a customer document as the registry returns it
FullCustomer ==
    LET leaf(tag, text) == Element(tag, <<>>, <<>>, text)
        line(n, text) == Element("line", << <<"number", n>> >>, <<>>, text)
    IN Element("customer", << <<"xmlns", CoreNS>> >>,
        << leaf("customerName", "ACME"),
           Element("iso3166-1", <<>>,
                   << leaf("name", "Canada"), leaf("code2", "CA"),
                      leaf("code3", "CAN"), leaf("e164", "1") >>, ""),
           leaf("handle", "C0000001"),
           Element("streetAddress", <<>>, << line("1", "1 Main St") >>, ""),
           leaf("city", "Montreal"),
           leaf("iso3166-2", "QC"),
           leaf("postalCode", "H2X 1Y4"),
           Element("comment", <<>>, << line("1", "NOC 24/7") >>, ""),
           leaf("parentOrgHandle", "ORG-1"),
           leaf("registrationDate", "2019-05-01"),
           leaf("privateCustomer", "true") >>, "")

\* a net document as the registry returns it
FullNet ==
    LET leaf(tag, text) == Element(tag, <<>>, <<>>, text)
        line(n, text) == Element("line", << <<"number", n>> >>, <<>>, text)
    IN Element("net", << <<"xmlns", CoreNS>> >>,
        << leaf("version", "4"),
           Element("comment", <<>>, << line("0", "NOC 24/7") >>, ""),
           leaf("registrationDate", "2019-05-01"),
           leaf("handle", "NET-10-1-1-0-1"),
           Element("netBlocks", <<>>,
                   << Element("netBlock", <<>>,
                              << leaf("cidrLength", "24"),
                                 leaf("description", "Reassigned"),
                                 leaf("endAddress", "010.001.001.255"),
                                 leaf("startAddress", "010.001.001.000"),
                                 leaf("type", "S") >>, "") >>, ""),
           leaf("parentNetHandle", "NET-10-0-0-0-1"),
           leaf("netName", "CUST-4-10-1-1-0"),
           Element("originASes", <<>>, << leaf("originAS", "AS64500") >>, ""),
           leaf("customerHandle", "C0000001") >>, "")

\* the children of e, numbered, without those at the positions of drop
WithoutKids(e, drop) ==
    [e EXCEPT !.kids = SelectSeq([i \in 1..Len(e.kids) |-> <<i, e.kids[i]>>],
                                 LAMBDA p : p[1] \notin drop)]

KidsOnly(pairs) == [i \in 1..Len(pairs) |-> pairs[i][2]]

\* e without the children at the positions of drop
KidsOnlyOf(e, drop) == [e EXCEPT !.kids = KidsOnly(WithoutKids(e, drop).kids)]

Dropped(e) ==
    {KidsOnlyOf(e, drop) :
        drop \in {d \in SUBSET (1..Len(e.kids)) : Cardinality(d) <= MaxMissing}}

\* the response bodies from_xml is given: a customer or a net document with up
\* to MaxMissing children missing, a root without content, a document with
\* another root, text that is no document
ResponseDocs ==
    {PyXml(e) : e \in Dropped(FullCustomer) \cup Dropped(FullNet)}
    \cup {PyXml(Element("customer", <<>>, <<>>, "")),
          PyXml(Element("net", <<>>, <<>>, "")),
          PyXml(Element("error", <<>>, <<>>, "E_ENTITY_VALIDATION")),
          PyStr("Invalid payload")}

PayloadClasses == {"CustomerPayload", "NetPayload"}

\* cls.from_xml(xml)
FromXml(cls, xml) ==
    IF cls = "CustomerPayload" THEN CustomerPayload_from_xml(xml)
    ELSE NetPayload_from_xml(xml)

\* the root element from_xml of cls reads
RootTag(cls) == IF cls = "CustomerPayload" THEN "customer" ELSE "net"

\* p.schema
Schema(p) ==
    CASE p.ty = "CustomerPayload" -> Return(CustomerPayload_schema(p))
      [] p.ty = "NetBlockPayload" -> Return(NetBlockPayload_schema(p))
      [] p.ty = "NetPayload" -> NetPayload_schema(p)

\* the object after p.schema was read
AfterSchema(p) == IF p.ty = "NetPayload" THEN NetPayload_schema_self(p) ELSE p

(***************************************************************************)
(* tools/arin/arin.py                                                      *)
(***************************************************************************)

\* A str argument of _api_query: its value, and whether it is the interned
\* object of a literal of the same value. `a is "GET"` is true only of that
\* object: a literal written in a call is, a string built or read at run time
\* (a setting, a command-line argument) is not.
Arg(v, interned) == [v |-> v, interned |-> interned]
Literal(v) == Arg(v, TRUE)
Is(a, literal) == a.v = literal /\ a.interned

\* the list of line 32 with a method added that lines 49-56 have no branch for
Methods_withPatch == {"GET", "POST", "DELETE", "PUT", "PATCH"}

Methods == {"GET", "POST", "DELETE", "PUT"}
ReturnTypes == {"json", "html", "plain", "xml"}

\* the Accept header of lines 40-47: set by the first `return_type is ...` that
\* is true, left out when none is
AcceptHeader(return_type) ==
    CASE Is(return_type, "json") -> << <<"Accept", "application/json">> >>
      [] Is(return_type, "html") -> << <<"Accept", "text/html">> >>
      [] Is(return_type, "plain") -> << <<"Accept", "text/plain">> >>
      [] Is(return_type, "xml") -> << <<"Accept", "application/xml">> >>
      [] OTHER -> <<>>

\* the requests.get/post/put/delete call of lines 49-56: the HTTP request sent.
\* GET and DELETE are sent without data.
Request(apikey, resource, payload, method, headers) ==
    [method |-> method.v,
     url |-> "https://www.arin.net/rest" \o resource,
     apikey |-> apikey,
     headers |-> headers,
     data |-> IF method.v \in {"POST", "PUT"} THEN payload ELSE None]

\* every status below 400 taken for a success
IsError_clientAndServerErrorsOnly(response) == response.status_code >= 400

\* only a 5xx status taken for an error
IsError_serverErrorsOnly(response) == response.status_code >= 500

\* lines 58-59: `request.status_code is not 200`. An int below 257 is one cached
\* object, so the identity test is the comparison of the values.
IsError(response) == response.status_code /= 200

\* lines 66-68: an ARINException is logged and the call returns False
Caught(resource, msg) ==
    [ret |-> Return(PyBool(FALSE)),
     sent |-> <<>>,
     logged |-> << [resource |-> resource, exc |-> "ARINException", msg |-> msg] >>]

\* the request got no answer: requests.get/post/put/delete raises
NoResponse == [error |-> "ConnectionError"]

\* Arin._api_query(resource, payload, method, return_type) when the server
\* answers `response` to the request it sends: the outcome of the call, the
\* request sent (none or one) and the error logged (none or one)
Arin_api_query(apikey, resource, payload, method, return_type, response) ==
    IF method.v \notin Methods
    THEN Caught(resource, [text |-> "Invalid method specified"])
    ELSE IF return_type.v \notin ReturnTypes
    THEN Caught(resource, [text |-> "Invalid return type specified"])
    ELSE LET headers == << <<"Content-Type", "application/xml">> >> \o AcceptHeader(return_type)
         IN IF ~\E m \in Methods : Is(method, m)
            THEN \* no branch of lines 49-56 ran: `request` is unbound at line 58
                 [ret |-> Raise("UnboundLocalError", "request"), sent |-> <<>>, logged |-> <<>>]
            ELSE LET sent == << [request |-> Request(apikey, resource, payload, method, headers),
                                 response |-> response] >>
                 IN IF response = NoResponse
                    THEN \* requests raises; only ARINException is caught
                         [ret |-> Raise("ConnectionError", resource), sent |-> sent, logged |-> <<>>]
                    ELSE IF IsError(response)
                    THEN [Caught(resource, [text |-> "Server returned error code",
                                            status_code |-> response.status_code,
                                            body |-> response.text])
                             EXCEPT !.sent = sent]
                    ELSE [ret |-> Return(response.text), sent |-> sent, logged |-> <<>>]

\* "%s" % payload: the payload's str(); a payload whose schema raises makes the
\* formatting raise
Format(payload) ==
    CASE payload.ty = "None" -> Return(PyStr("None"))
      [] payload.ty \in {"str", "xml"} -> Return(payload)
      [] OTHER -> ArinPayload__str__(Schema(payload))

\* a client method that formats its payload and calls _api_query
Submit(apikey, resource, payload, method, response) ==
    LET body == Format(payload)
    IN IF ~body.ok THEN [ret |-> body, sent |-> <<>>, logged |-> <<>>]
       ELSE Arin_api_query(apikey, resource, body.val, method, Literal("xml"), response)

\* Arin.create_recipient_customer(parent_net_handle, customer_payload): calls
\* _api_query(resource, payload) with the default method, "GET"
Arin_create_recipient_customer(apikey, parent_net_handle, customer_payload, response) ==
    Submit(apikey, "/net/" \o Unicode(parent_net_handle) \o "/customer",
           customer_payload, Literal("GET"), response)

\* Arin.create_recipient_org(parent_net_handle, org_payload)
Arin_create_recipient_org(apikey, parent_net_handle, org_payload, response) ==
    Submit(apikey, "/net/" \o Unicode(parent_net_handle) \o "/org",
           org_payload, Literal("GET"), response)

\* Arin.create_org(org_payload)
Arin_create_org(apikey, org_payload, response) ==
    Submit(apikey, "/org/", org_payload, Literal("GET"), response)

\* Arin.create_poc(poc_payload, makelink=True)
Arin_create_poc(apikey, poc_payload, makelink, response) ==
    Submit(apikey, "/poc;makeLink=" \o (IF makelink THEN "True" ELSE "False"),
           poc_payload, Literal("GET"), response)

\* Arin.create_roa: valid_types = ["AR", "AP", "RN" "LN", "AF"]; the two literals
\* without a comma between them are one string
create_roa_valid_types == {"AR", "AP", "RN" \o "LN", "AF"}

\* Arin.create_roa(org_handle, roa_payload, resource_class="AR")
Arin_create_roa(apikey, org_handle, roa_payload, resource_class, response) ==
    IF resource_class \notin create_roa_valid_types
    THEN [ret |-> Raise("PayloadException", "Invalid resource_class"),
          sent |-> <<>>, logged |-> <<>>]
    ELSE Submit(apikey, "/roa/" \o org_handle \o ";resourceClass=" \o resource_class,
                roa_payload, Literal("GET"), response)

\* Arin.reassign_net(parent_net_handle, net_payload)
Arin_reassign_net(apikey, parent_net_handle, net_payload, response) ==
    Submit(apikey, "/net/" \o Unicode(parent_net_handle) \o "/reassign",
           net_payload, Literal("PUT"), response)

\* Arin.get_customer(customer_handle)
Arin_get_customer(apikey, customer_handle, response) ==
    Arin_api_query(apikey, "/customer/" \o customer_handle, None,
                   Literal("GET"), Literal("xml"), response)

\* Arin.delete_customer(customer_handle)
Arin_delete_customer(apikey, customer_handle, response) ==
    Arin_api_query(apikey, "/customer/" \o customer_handle, None,
                   Literal("DELETE"), Literal("xml"), response)

\* Arin.modify_customer(customer_handle, customer_payload)
Arin_modify_customer(apikey, customer_handle, customer_payload, response) ==
    Submit(apikey, "/customer/" \o customer_handle, customer_payload,
           Literal("PUT"), response)

Idle == /\ http = <<>>
        /\ log = <<>>
        /\ flow = None

InitPayload ==
    /\ pc = "start"
    /\ call = [name |-> "none"]
    /\ self = None
    /\ doc = None
    /\ ret = Return(None)
    /\ Idle

\* NetBlockPayload(start_address, description, end_address=..., ...)
NewNetBlockPayload ==
    /\ pc = "start"
    /\ \E start_address \in StartAddresses, description \in Descriptions,
          end_address \in EndAddresses, cidr_length \in CidrLengths,
          net_type \in NetTypes, version \in BlockVersions :
        LET r == NetBlockPayload__init__(start_address, description, end_address,
                                         cidr_length, net_type, version)
        IN /\ call' = [name |-> "NetBlockPayload",
                       args |-> [end_address |-> end_address, cidr_length |-> cidr_length,
                                 net_type |-> net_type, version |-> version]]
           /\ ret' = r
           /\ self' = IF r.ok THEN r.val ELSE None
           /\ pc' = IF r.ok THEN "built" ELSE "raised"
    /\ UNCHANGED <<doc, http, log, flow>>

\* NetPayload(version, comment, parent_net_handle, net_name, ...)
NewNetPayload ==
    /\ pc = "start"
    /\ \E comment \in Comments, origin_ases \in OriginASLists, net_blocks \in NetBlockLists,
          server \in ServerAssigned, org_handle \in OrgHandles,
          customer_handle \in CustomerHandles, poc_links \in PocLinkLists :
        LET r == NetPayload__init__(PyStr("4"), comment, PyStr("NET-10-0-0-0-1"),
                                    PyStr("CUST-4-10-1-1-0"), origin_ases, net_blocks,
                                    server[1], server[2], org_handle, customer_handle,
                                    poc_links)
        IN /\ call' = [name |-> "NetPayload",
                       args |-> [org_handle |-> org_handle,
                                 customer_handle |-> customer_handle]]
           /\ ret' = r
           /\ self' = IF r.ok THEN r.val ELSE None
           /\ pc' = IF r.ok THEN "built" ELSE "raised"
    /\ UNCHANGED <<doc, http, log, flow>>

\* CustomerPayload(customer_name, ..., private_customer[, handle, registration_date])
NewCustomerPayload ==
    /\ pc = "start"
    /\ \E street_address \in StreetAddresses, city \in Cities, comment \in Comments,
          private_customer \in PrivateFlags, server \in CustomerServerAssigned :
        LET args == << PyStr("ACME"), PyStr("Canada"), PyStr("CA"), PyStr("CAN"),
                       PyStr("1"), street_address, city, PyStr("QC"), PyStr("H2X 1Y4"),
                       comment, PyStr("ORG-1"), private_customer >> \o server
            p == CustomerPayload__init__(args, PyDict(<<>>))
        IN /\ call' = [name |-> "CustomerPayload", args |-> args]
           /\ ret' = Return(p)
           /\ self' = p
           /\ pc' = "built"
    /\ UNCHANGED <<doc, http, log, flow>>

\* str(self)
Str ==
    /\ pc = "built"
    /\ LET r == ArinPayload__str__(Schema(self))
       IN /\ ret' = r
          /\ doc' = IF r.ok THEN r.val ELSE None
          /\ pc' = IF r.ok THEN "serialized" ELSE "raised"
    /\ call' = [name |-> "str", p |-> self]
    /\ self' = AfterSchema(self)
    /\ UNCHANGED <<http, log, flow>>

\* a response body arrives
Receive ==
    /\ pc = "start"
    /\ \E body \in ResponseDocs : doc' = body
    /\ pc' = "received"
    /\ call' = [name |-> "receive"]
    /\ UNCHANGED <<self, ret, http, log, flow>>

\* cls.from_xml(doc), of the document just serialized or received
CallFromXml ==
    /\ pc \in {"serialized", "received"}
    /\ \E cls \in PayloadClasses :
        /\ pc = "serialized" => cls = self.ty
        /\ ret' = FromXml(cls, doc)
        /\ call' = [name |-> "from_xml", cls |-> cls,
                    p |-> IF pc = "serialized" THEN call.p ELSE None]
    /\ pc' = "parsed"
    /\ UNCHANGED <<self, doc, http, log, flow>>

NextPayload ==
    \/ NewNetBlockPayload
    \/ NewNetPayload
    \/ NewCustomerPayload
    \/ Str
    \/ Receive
    \/ CallFromXml

SpecPayload == InitPayload /\ [][NextPayload]_vars



(***************************************************************************)
(* The client scenarios: one call of a client method, answered by the      *)
(* registry.                                                               *)
(***************************************************************************)
ApiKey == "API-KEY"

\* what the registry answers: a status code and a body
Response(status_code, text) == [status_code |-> status_code, text |-> text]

ErrorDoc == PyXml(Element("error", << <<"xmlns", CoreNS>> >>,
                          << Element("message", <<>>, <<>>, "E_OBJECT_NOT_FOUND") >>, ""))

ClientResponses ==
    { Response(200, PyXml(FullCustomer)),
      Response(200, PyStr("")),
      Response(400, PyStr("Invalid payload")),
      Response(404, ErrorDoc),
      Response(500, PyStr("")) }

MethodArgs == {Arg(m, i) : m \in Methods \cup {"PATCH", "get"}, i \in BOOLEAN}
ReturnTypeArgs == {Arg(t, i) : t \in ReturnTypes \cup {"yaml"}, i \in BOOLEAN}
RequestPayloads == {None, PyXml(FullCustomer)}
SomeCustomer ==
    CustomerPayload__init__(
        << PyStr("ACME"), PyStr("Canada"), PyStr("CA"), PyStr("CAN"), PyStr("1"),
           PyStr("1 Main St"), PyStr("Montreal"), PyStr("QC"), PyStr("H2X 1Y4"),
           PyStr(""), PyStr("ORG-1"), PyStr("true") >>, PyDict(<<>>))
SomeNet ==
    NetPayload__init__(PyInt(4), None, PyStr("NET-10-0-0-0-1"), PyStr("CUST-4-10-1-1-0"),
                       PyList(<< PyStr("AS64500") >>),
                       PyList(<< CHOOSE b \in SomeNetBlocks : TRUE >>),
                       None, None, None, PyStr("C0000001"), None).val
ParentNetHandles == {PyStr("NET-10-0-0-0-1")}
\* payloads the caller hands over as xml text
SomeOrg == PyStr("<org xmlns=\"http://www.arin.net/regrws/core/v1\"><orgName>ACME</orgName></org>")
SomeRoa == PyStr("<roa xmlns=\"http://www.arin.net/regrws/rpki/v1\"><roaData>1|1340135296|My First ROA|1234|05-25-2011|05-25-2012|10.0.0.0|8|16|</roaData></roa>")
\* the resource classes create_roa is called with
ResourceClasses == {"AR", "AP", "RN", "LN", "AF", "RNLN", "ar", "XX", ""}
SomePoc == PyStr("<poc xmlns=\"http://www.arin.net/regrws/core/v1\"><lastName>Doe</lastName></poc>")

InitClient ==
    /\ pc = "start"
    /\ call = [name |-> "none"]
    /\ self = None
    /\ doc = None
    /\ ret = Return(None)
    /\ http = <<>>
    /\ log = <<>>
    /\ flow = None

\* the caller's view of a finished client call r
Called(r) ==
    /\ ret' = r.ret
    /\ http' = http \o r.sent
    /\ log' = log \o r.logged
    /\ pc' = IF r.ret.ok THEN "returned" ELSE "raised"
    /\ UNCHANGED <<self, doc, flow>>

\* arin._api_query(resource, payload, method, return_type)
Call_api_query ==
    /\ pc = "start"
    /\ \E payload \in RequestPayloads, method \in MethodArgs,
          return_type \in ReturnTypeArgs, response \in ClientResponses :
        /\ call' = [name |-> "_api_query", payload |-> payload, method |-> method,
                    return_type |-> return_type]
        /\ Called(Arin_api_query(ApiKey, "/customer/C0000001", payload, method,
                                 return_type, response))

\* arin.create_recipient_customer(parent_net_handle, customer_payload)
Call_create_recipient_customer ==
    /\ pc = "start"
    /\ \E h \in ParentNetHandles, response \in ClientResponses :
        /\ call' = [name |-> "create_recipient_customer", payload |-> SomeCustomer]
        /\ Called(Arin_create_recipient_customer(ApiKey, h, SomeCustomer, response))

\* arin.create_recipient_org(parent_net_handle, org_payload)
Call_create_recipient_org ==
    /\ pc = "start"
    /\ \E h \in ParentNetHandles, response \in ClientResponses :
        /\ call' = [name |-> "create_recipient_org", payload |-> SomeOrg]
        /\ Called(Arin_create_recipient_org(ApiKey, h, SomeOrg, response))

\* arin.create_org(org_payload)
Call_create_org ==
    /\ pc = "start"
    /\ \E response \in ClientResponses :
        /\ call' = [name |-> "create_org", payload |-> SomeOrg]
        /\ Called(Arin_create_org(ApiKey, SomeOrg, response))

\* arin.create_poc(poc_payload), arin.create_poc(poc_payload, makelink=False)
Call_create_poc ==
    /\ pc = "start"
    /\ \E makelink \in BOOLEAN, response \in ClientResponses :
        /\ call' = [name |-> "create_poc", payload |-> SomePoc, makelink |-> makelink]
        /\ Called(Arin_create_poc(ApiKey, SomePoc, makelink, response))

\* arin.create_roa(org_handle, roa_payload, resource_class=...)
Call_create_roa ==
    /\ pc = "start"
    /\ \E resource_class \in ResourceClasses, response \in ClientResponses :
        /\ call' = [name |-> "create_roa", payload |-> SomeRoa,
                    resource_class |-> resource_class]
        /\ Called(Arin_create_roa(ApiKey, "ORG-1", SomeRoa, resource_class, response))

\* arin.reassign_net(parent_net_handle, net_payload)
Call_reassign_net ==
    /\ pc = "start"
    /\ \E h \in ParentNetHandles, response \in ClientResponses :
        /\ call' = [name |-> "reassign_net", payload |-> SomeNet]
        /\ Called(Arin_reassign_net(ApiKey, h, SomeNet, response))

\* arin.get_customer(customer_handle)
Call_get_customer ==
    /\ pc = "start"
    /\ \E response \in ClientResponses :
        /\ call' = [name |-> "get_customer", payload |-> None]
        /\ Called(Arin_get_customer(ApiKey, "C0000001", response))

\* arin.delete_customer(customer_handle)
Call_delete_customer ==
    /\ pc = "start"
    /\ \E response \in ClientResponses :
        /\ call' = [name |-> "delete_customer", payload |-> None]
        /\ Called(Arin_delete_customer(ApiKey, "C0000001", response))

\* arin.modify_customer(customer_handle, customer_payload)
Call_modify_customer ==
    /\ pc = "start"
    /\ \E response \in ClientResponses :
        /\ call' = [name |-> "modify_customer", payload |-> SomeCustomer]
        /\ Called(Arin_modify_customer(ApiKey, "C0000001", SomeCustomer, response))

NextClient ==
    \/ Call_api_query
    \/ Call_create_recipient_customer
    \/ Call_create_recipient_org
    \/ Call_create_org
    \/ Call_create_poc
    \/ Call_create_roa
    \/ Call_reassign_net
    \/ Call_get_customer
    \/ Call_delete_customer
    \/ Call_modify_customer

SpecClient == InitClient /\ [][NextClient]_vars

(***************************************************************************)
(* tools/googlemaps/googlemaps.py                                          *)
(***************************************************************************)

\* tools/googlemaps/constants.py: the place types a candidate may carry to be
\* taken for an address, and the component types the properties read
DEFAULT_TYPES == {"street_address", "premise", "subpremise"}
USEFUL_TYPES ==
    {"street_number", "route", "locality", "administrative_area_level_1",
     "country", "postal_code"}

\* the last result whose types are all expected
GeocodeResult_location_lastMatch(raw, expected_types) ==
    LET filtered_results == SelectSeq(raw, LAMBDA result : result.types \subseteq expected_types)
    IN IF Len(filtered_results) = 0
       THEN Raise("GeocodeResultError", "No valid location of the types")
       ELSE Return(filtered_results[Len(filtered_results)])

\* GeocodeResult.location: the first result whose types are all expected
GeocodeResult_location(raw, expected_types) ==
    LET filtered_results == SelectSeq(raw, LAMBDA result : result.types \subseteq expected_types)
    IN IF Len(filtered_results) = 0
       THEN Raise("GeocodeResultError", "No valid location of the types")
       ELSE Return(filtered_results[1])

\* GeocodeResult.address_components with one of 'short_name' / 'long_name'
\* taken (short_address_components, long_address_components): a dict keyed by
\* the first type of each component that has a useful type
GeocodeResult_address_components(raw, expected_types, name) ==
    LET location == GeocodeResult_location(raw, expected_types)
    IN IF ~location.ok THEN location
       ELSE LET useful == SelectSeq(location.val.address_components,
                                    LAMBDA component : component.types \cap USEFUL_TYPES /= {})
            IN Return(OrderedDict([i \in 1..Len(useful) |->
                                     <<useful[i].first_type, PyStr(useful[i][name])>>]))

\* one entry of short_address_components / long_address_components
GeocodeResult_component(raw, expected_types, name, key) ==
    LET components == GeocodeResult_address_components(raw, expected_types, name)
    IN IF components.ok THEN Subscript(components.val, key) ELSE components

\* pycountry's countries
Countries ==
    << [name |-> "Canada", alpha_2 |-> "CA", alpha_3 |-> "CAN", numeric |-> "124"],
       [name |-> "United States", alpha_2 |-> "US", alpha_3 |-> "USA", numeric |-> "840"] >>

\* GeocodeResult.iso3166_1.<attr>: countries.get(name=...) of the long country
\* name; a name pycountry does not know has no such attribute
GeocodeResult_iso3166_1(raw, expected_types, attr) ==
    LET country == GeocodeResult_component(raw, expected_types, "long_name", "country")
    IN IF ~country.ok THEN country
       ELSE LET found == SelectSeq(Countries, LAMBDA c : c.name = country.val.v)
            IN IF found = <<>> THEN Raise("AttributeError", attr)
               ELSE Return(PyStr(found[1][attr]))

\* GeocodeResult.street_address: "{street_number} {route}"
GeocodeResult_street_address(raw, expected_types) ==
    LET street_number == GeocodeResult_component(raw, expected_types, "long_name", "street_number")
        route == GeocodeResult_component(raw, expected_types, "long_name", "route")
    IN IF ~street_number.ok THEN street_number
       ELSE IF ~route.ok THEN route
       ELSE Return(PyStr(street_number.val.v \o " " \o route.val.v))

(***************************************************************************)
(* netbox-cli.py: arin_reassign_simple for one prefix (--prefix-id)        *)
(***************************************************************************)

\* a pynetbox record: truthy whatever its fields
Record(fields) == [ty |-> "Record", fields |-> fields]

\* ctx.exit(code)
Exit(code) == Raise("Exit", code)

\* a logger call
Logged(level, msg) == [level |-> level, msg |-> msg]

\* sep.join(parts)
RECURSIVE Join(_, _)
Join(sep, parts) ==
    IF parts = <<>> THEN ""
    ELSE IF Len(parts) = 1 THEN parts[1]
    ELSE parts[1] \o sep \o Join(sep, Tail(parts))

\* text.split(sep): the pieces of the text between the occurrences of sep
RECURSIVE Split(_, _)
Split(text, sep) ==
    IF text = <<>> THEN << "" >>
    ELSE LET rest == Split(Tail(text), sep)
         IN  IF Head(text) = sep THEN << "" >> \o rest
             ELSE << Head(text) \o Head(rest) >> \o Tail(rest)

\* ContextObject.arin_origin_ases, lines 145-147: config['arin']['origin_ases'].split(',');
\* the setting is its values and the commas between them
arin_origin_ases(value) ==
    PyList([i \in 1..Len(Split(value, ",")) |-> PyStr(Split(value, ",")[i])])

\* the existing handle tested without regard to --replace-existing
HasHandle_whateverReplaceExisting(replace_existing, prefix) ==
    Truthy(prefix.custom_fields.handle)

\* lines 336 and 405: `not replace_existing and prefix.custom_fields['RIR Handle']`
HasHandle(replace_existing, prefix) ==
    ~replace_existing /\ Truthy(prefix.custom_fields.handle)

\* lines 325-351 without the test of lines 347-351
Preconditions_noParentNetHandleCheck(f) ==
    IF ~Truthy(f.parent_org_handle)
    THEN [ret |-> Exit(1), msg |-> "arin-parent-org-handle setting is not set, exitting"]
    ELSE IF HasHandle(f.replace_existing, f.prefix)
    THEN [ret |-> Exit(1), msg |-> "already has an RIR Handle, exitting"]
    ELSE IF f.aggregate.ty = "None"
    THEN [ret |-> Raise("AttributeError", "custom_fields"), msg |-> ""]
    ELSE IF ~Truthy(f.prefix.tenant)
    THEN [ret |-> Exit(1), msg |-> "has no tenant, exitting"]
    ELSE IF ~Truthy(f.prefix.site)
    THEN [ret |-> Exit(1), msg |-> "has no site, exitting"]
    ELSE [ret |-> Return(f.aggregate.fields.handle), msg |-> ""]

\* lines 325-368: the checks before the payloads are built, in order; the
\* outcome is the exit (or the exception) of the first check that fails, with
\* the error it logs, or else parent_net_handle
Preconditions(f) ==
    IF ~Truthy(f.parent_org_handle)
    THEN [ret |-> Exit(1), msg |-> "arin-parent-org-handle setting is not set, exitting"]
    ELSE IF HasHandle(f.replace_existing, f.prefix)
    THEN [ret |-> Exit(1), msg |-> "already has an RIR Handle, exitting"]
    ELSE IF f.aggregate.ty = "None"
    THEN \* aggregates.get(q=prefix) found none: None has no custom_fields
         [ret |-> Raise("AttributeError", "custom_fields"), msg |-> ""]
    ELSE IF ~Truthy(f.aggregate.fields.handle)
    THEN [ret |-> Exit(1), msg |-> "Aggregate has no RIR Handle, exitting"]
    ELSE IF ~Truthy(f.prefix.tenant)
    THEN [ret |-> Exit(1), msg |-> "has no tenant, exitting"]
    ELSE IF ~Truthy(f.prefix.site)
    THEN [ret |-> Exit(1), msg |-> "has no site, exitting"]
    ELSE [ret |-> Return(f.aggregate.fields.handle), msg |-> ""]

\* lines 379-395: the customer payload built from the tenant, the geocoded
\* address of the site and the parent org handle; the properties of the
\* geocode result are read in statement order
BuildCustomer(f, raw) ==
    LET steps == << GeocodeResult_iso3166_1(raw, DEFAULT_TYPES, "name"),
                    GeocodeResult_iso3166_1(raw, DEFAULT_TYPES, "alpha_2"),
                    GeocodeResult_iso3166_1(raw, DEFAULT_TYPES, "alpha_3"),
                    GeocodeResult_iso3166_1(raw, DEFAULT_TYPES, "numeric"),
                    GeocodeResult_street_address(raw, DEFAULT_TYPES),
                    GeocodeResult_component(raw, DEFAULT_TYPES, "long_name", "locality"),
                    GeocodeResult_component(raw, DEFAULT_TYPES, "short_name",
                                            "administrative_area_level_1"),
                    GeocodeResult_component(raw, DEFAULT_TYPES, "long_name", "postal_code") >>
    IN CHOOSE customer \in
          { IF ~AllOk(s) THEN FirstRaise(s)
            ELSE Return(CustomerPayload__init__(
                     << f.prefix.tenant.fields.name,
                        s[1].val, s[2].val, s[3].val, s[4].val,
                        s[5].val, s[6].val, s[7].val, s[8].val,
                        PyStr(""), f.parent_org_handle, PyStr("true") >>, PyDict(<<>>))) :
            s \in {steps} } : TRUE

\* lines 416-420: "CUST-%s-%s" % (prefix.family, "-".join(octets))
NetName(prefix) == "CUST-" \o prefix.family.str \o "-" \o Join("-", prefix.octets)

\* the net payload built with the handle and the date the prefix already holds
BuildNet_withHandleOfPrefix(f, customer) ==
    IF f.prefix.role.ty = "None" THEN Raise("AttributeError", "name")
    ELSE LET arin_netblock_payload ==
                 NetBlockPayload__init__(PyStr(Join(".", f.prefix.octets)),
                                         f.prefix.role.fields.name,
                                         None, PyInt(f.prefix.prefixlen), None, None)
         IN IF ~arin_netblock_payload.ok THEN arin_netblock_payload
            ELSE NetPayload__init__(PyInt(f.prefix.family.value), None,
                                    f.parent_net_handle, PyStr(NetName(f.prefix)),
                                    f.origin_ases,
                                    PyList(<< arin_netblock_payload.val >>),
                                    f.prefix.custom_fields.handle,
                                    f.prefix.custom_fields.registration_date,
                                    None, customer.handle, None)

\* lines 409-433: the net payload built for the prefix once the customer exists
BuildNet(f, customer) ==
    IF f.prefix.role.ty = "None" THEN Raise("AttributeError", "name")
    ELSE LET arin_netblock_payload ==
                 NetBlockPayload__init__(PyStr(Join(".", f.prefix.octets)),
                                         f.prefix.role.fields.name,
                                         None, PyInt(f.prefix.prefixlen), None, None)
         IN IF ~arin_netblock_payload.ok THEN arin_netblock_payload
            ELSE NetPayload__init__(PyInt(f.prefix.family.value), None,
                                    f.parent_net_handle, PyStr(NetName(f.prefix)),
                                    f.origin_ases,
                                    PyList(<< arin_netblock_payload.val >>),
                                    None, None, None, customer.handle, None)

\* TicketedRequestPayload.from_xml(xml): the net inside the ticket, parsed by
\* NetPayload.from_xml; None when the ticket holds no net
TicketedRequestPayload_from_xml(xml) ==
    LET document == Parse(xml)
    IN IF ~document.ok THEN document
       ELSE LET document_root == Subscript(document.val, "ticketedRequest")
            IN IF ~document_root.ok THEN document_root
               ELSE LET net == Get(document_root.val, "net")
                    IN IF ~net.ok THEN net
                       ELSE IF ~Truthy(net.val) THEN Return(None)
                       ELSE LET roots == Unparse(PyDict(<< <<"net", net.val>> >>))
                            IN IF Len(roots) /= 1
                               THEN Raise("ValueError", "Document must have exactly one root.")
                               ELSE NetPayload_from_xml(PyXml(roots[1]))

\* the write-back done whatever the ticket parsed to
WriteBack_unconditional(prefix, arin_net_response_payload) ==
    Return([prefix EXCEPT
              !.custom_fields = [handle |-> None, registration_date |-> None, net_name |-> None],
              !.saved = @ + 1])

\* the write-back with the registration date and the net name exchanged
WriteBack_datesAndNamesExchanged(prefix, arin_net_response_payload) ==
    IF ~arin_net_response_payload.ok THEN arin_net_response_payload
    ELSE IF arin_net_response_payload.val.ty = "None" THEN Raise("AttributeError", "handle")
    ELSE Return([prefix EXCEPT
                   !.custom_fields = [handle |-> arin_net_response_payload.val.handle,
                                      registration_date |-> arin_net_response_payload.val.net_name,
                                      net_name |-> arin_net_response_payload.val.registration_date],
                   !.saved = @ + 1])

\* lines 442-445: the handle, registration date and net name of the ticket's net
\* are written to the prefix, which is then saved; a ticket without a net
\* parsed to None, which has no handle
WriteBack(prefix, arin_net_response_payload) ==
    IF ~arin_net_response_payload.ok THEN arin_net_response_payload
    ELSE IF arin_net_response_payload.val.ty = "None" THEN Raise("AttributeError", "handle")
    ELSE Return([prefix EXCEPT
                   !.custom_fields = [handle |-> arin_net_response_payload.val.handle,
                                      registration_date |-> arin_net_response_payload.val.registration_date,
                                      net_name |-> arin_net_response_payload.val.net_name],
                   !.saved = @ + 1])

(***************************************************************************)
(* The workflow scenarios: one run of `arin reassign simple --prefix-id`   *)
(* against a prefix of the IPAM, a geocoder and the registry.              *)
(***************************************************************************)

\* prefix.custom_fields: 'RIR Handle', 'RIR registration date', 'RIR Net Name'
CustomFields ==
    { [handle |-> None, registration_date |-> None, net_name |-> None],
      [handle |-> PyStr(""), registration_date |-> None, net_name |-> None],
      [handle |-> PyStr("NET-10-1-1-0-0"), registration_date |-> PyStr("2018-01-01"),
       net_name |-> PyStr("OLD-NAME")] }

Tenants == {None, Record([name |-> PyStr("ACME")])}
Sites == {None, Record([physical_address |-> PyStr("1 Main St, Montreal")])}
Roles == {None, Record([name |-> PyStr("Customer Allocation")])}
\* prefix.family: its value, and the text "%s" gives for the record
Families == {[value |-> 4, str |-> "4"], [value |-> 4, str |-> "IPv4"]}
\* aggregates.get(q=prefix): none found, or the aggregate with its 'RIR Handle'
Aggregates ==
    {None} \cup {Record([handle |-> h]) : h \in {None, PyStr(""), PyStr("NET-10-0-0-0-1")}}
ParentOrgHandles == {PyStr(""), PyStr("ORG-1")}
\* config['arin']['origin_ases']: empty as write_config leaves it (line 54), one
\* AS, two ASes
OriginASValues == { <<>>, << "AS64500" >>, << "AS64500", ",", "AS64501" >> }
\* obj.arin_origin_ases for each of these settings
OriginASSettings == { arin_origin_ases(value) : value \in OriginASValues }

Prefixes ==
    { [prefix |-> "10.1.1.0/24", octets |-> <<"10", "1", "1", "0">>, prefixlen |-> 24,
       family |-> family, role |-> role, tenant |-> tenant, site |-> site,
       custom_fields |-> custom_fields, saved |-> 0] :
        family \in Families, role \in Roles, tenant \in Tenants, site \in Sites,
        custom_fields \in CustomFields }

\* the candidates the geocoder returns
Component(type, short_name, long_name) ==
    [types |-> {type}, first_type |-> type, short_name |-> short_name, long_name |-> long_name]
AddressComponents ==
    << Component("street_number", "1", "1"),
       Component("route", "Main St", "Main Street"),
       Component("locality", "Montreal", "Montreal"),
       Component("administrative_area_level_1", "QC", "Quebec"),
       Component("country", "CA", "Canada"),
       Component("postal_code", "H2X 1Y4", "H2X 1Y4") >>
StreetCandidate == [types |-> {"street_address"}, address_components |-> AddressComponents]
LocalityCandidate ==
    [types |-> {"locality", "political"}, address_components |-> SubSeq(AddressComponents, 3, 5)]
PremiseCandidate == [types |-> {"premise"}, address_components |-> SubSeq(AddressComponents, 1, 5)]
GeocodeResults ==
    { <<>>, << LocalityCandidate >>, << StreetCandidate >>,
      << LocalityCandidate, StreetCandidate >>, << PremiseCandidate, StreetCandidate >> }

\* the registry's answer to a reassignment: a ticketedRequest
Ticket(kids) == PyXml(Element("ticketedRequest", << <<"xmlns", CoreNS>> >>, kids, ""))
TicketElement ==
    Element("ticket", <<>>, << Element("ticketNo", <<>>, <<>>, "20190501-X1") >>, "")

CustomerResponses ==
    { Response(200, PyXml(FullCustomer)),
      Response(200, PyXml(KidsOnlyOf(FullCustomer, {3}))),
      Response(200, PyXml([FullCustomer EXCEPT !.kids[3].text = ""])),
      Response(200, PyStr("")),
      Response(201, PyXml(FullCustomer)),
      Response(400, PyStr("Invalid payload")),
      Response(404, ErrorDoc),
      NoResponse }
NetResponses ==
    { Response(200, Ticket(<< FullNet >>)),
      Response(200, Ticket(<< TicketElement >>)),
      Response(200, Ticket(<< KidsOnlyOf(FullNet, {4}) >>)),
      Response(200, PyXml(FullNet)),
      Response(200, PyStr("")),
      Response(400, PyStr("Invalid payload")),
      NoResponse }

InitFlow ==
    /\ pc = "begin"
    /\ call = [name |-> "arin_reassign_simple"]
    /\ self = None
    /\ doc = None
    /\ ret = Return(None)
    /\ http = <<>>
    /\ log = <<>>
    /\ \E replace_existing \in BOOLEAN, parent_org_handle \in ParentOrgHandles,
          origin_ases \in OriginASSettings, prefix \in Prefixes, aggregate \in Aggregates :
        flow = [replace_existing |-> replace_existing,
                parent_org_handle |-> parent_org_handle,
                origin_ases |-> origin_ases,
                prefix |-> prefix,
                original |-> prefix.custom_fields,
                aggregate |-> aggregate,
                parent_net_handle |-> None,
                raw |-> <<>>,
                arin_customer_payload |-> None,
                arin_customer_response |-> None,
                arin_net_payload |-> None,
                arin_net_response |-> None]

\* how the command ends when an exception leaves it
Ended(r) == IF r.exc = "Exit" THEN "exit" ELSE "raised"

\* lines 324-376: the settings, the prefix and its aggregate are read and
\* checked
Begin ==
    /\ pc = "begin"
    /\ LET r == Preconditions(flow)
       IN /\ ret' = IF r.ret.ok THEN ret ELSE r.ret
          /\ pc' = IF r.ret.ok THEN "geocode" ELSE Ended(r.ret)
          /\ log' = IF r.ret.ok THEN Append(log, Logged("info", "Processing"))
                    ELSE IF r.msg = "" THEN log
                    ELSE Append(log, Logged("error", r.msg))
          /\ flow' = IF r.ret.ok THEN [flow EXCEPT !.parent_net_handle = r.ret.val] ELSE flow
    /\ UNCHANGED <<call, self, doc, http>>

\* lines 379-395: the site's address is geocoded and the customer payload built
Geocode ==
    /\ pc = "geocode"
    /\ \E raw \in GeocodeResults :
        \E r \in {BuildCustomer(flow, raw)} :
           /\ ret' = IF r.ok THEN ret ELSE r
           /\ pc' = IF r.ok THEN "create_customer" ELSE "raised"
           /\ flow' = IF r.ok THEN [flow EXCEPT !.raw = raw, !.arin_customer_payload = r.val]
                      ELSE [flow EXCEPT !.raw = raw]
    /\ UNCHANGED <<call, self, doc, http, log>>

\* lines 397-399: create_recipient_customer is called with the customer payload
CreateCustomer ==
    /\ pc = "create_customer"
    /\ \E response \in CustomerResponses :
        \E r \in {Arin_create_recipient_customer(ApiKey, flow.parent_net_handle,
                                                 flow.arin_customer_payload, response)} :
           /\ http' = http \o r.sent
           /\ log' = log \o r.logged
           /\ ret' = IF r.ret.ok THEN ret ELSE r.ret
           /\ pc' = IF r.ret.ok THEN "customer_response" ELSE "raised"
           /\ flow' = IF r.ret.ok THEN [flow EXCEPT !.arin_customer_response = r.ret.val]
                      ELSE flow
    /\ UNCHANGED <<call, self, doc>>

\* lines 401-433 and 448-449: the answer is parsed and the net payload built
\* from the prefix and the customer's handle; on a falsy answer the debugger is
\* entered
AfterCustomer ==
    /\ pc = "customer_response"
    /\ IF ~Truthy(flow.arin_customer_response)
       THEN pc' = "ipdb" /\ UNCHANGED <<ret, log, flow>>
       ELSE \E arin_customer_response_payload \in
                   {CustomerPayload_from_xml(flow.arin_customer_response)} :
              IF ~arin_customer_response_payload.ok
              THEN /\ pc' = "raised"
                   /\ ret' = arin_customer_response_payload
                   /\ UNCHANGED <<log, flow>>
              ELSE IF HasHandle(flow.replace_existing, flow.prefix)
              THEN /\ pc' = "done"
                   /\ log' = Append(log, Logged("debug", "already has an RIR Handle, skipping creation of the NET object"))
                   /\ UNCHANGED <<ret, flow>>
              ELSE \E arin_net_payload \in {BuildNet(flow, arin_customer_response_payload.val)} :
                     /\ pc' = IF arin_net_payload.ok THEN "reassign" ELSE "raised"
                     /\ ret' = IF arin_net_payload.ok THEN ret ELSE arin_net_payload
                     /\ flow' = IF arin_net_payload.ok
                                THEN [flow EXCEPT !.arin_net_payload = arin_net_payload.val]
                                ELSE flow
                     /\ log' = log
    /\ UNCHANGED <<call, self, doc, http>>

\* lines 435-437: reassign_net is called with the net payload, whose schema is
\* read to format it
ReassignNet ==
    /\ pc = "reassign"
    /\ \E response \in NetResponses :
        \E r \in {Arin_reassign_net(ApiKey, flow.parent_net_handle,
                                    flow.arin_net_payload, response)} :
           /\ http' = http \o r.sent
           /\ log' = log \o r.logged
           /\ ret' = IF r.ret.ok THEN ret ELSE r.ret
           /\ pc' = IF r.ret.ok THEN "net_response" ELSE "raised"
           /\ flow' = [flow EXCEPT
                         !.arin_net_payload = AfterSchema(@),
                         !.arin_net_response = IF r.ret.ok THEN r.ret.val ELSE @]
    /\ UNCHANGED <<call, self, doc>>

\* lines 438-447: the ticket is parsed and the prefix is written back; on a
\* falsy answer the debugger is entered
AfterReassign ==
    /\ pc = "net_response"
    /\ IF ~Truthy(flow.arin_net_response)
       THEN pc' = "ipdb" /\ UNCHANGED <<ret, flow>>
       ELSE \E arin_net_response_payload \in
                   {TicketedRequestPayload_from_xml(flow.arin_net_response)} :
            \E written \in {WriteBack(flow.prefix, arin_net_response_payload)} :
              /\ pc' = IF written.ok THEN "done" ELSE "raised"
              /\ ret' = IF written.ok THEN ret ELSE written
              /\ flow' = IF written.ok THEN [flow EXCEPT !.prefix = written.val] ELSE flow
    /\ UNCHANGED <<call, self, doc, http, log>>

NextFlow ==
    \/ Begin
    \/ Geocode
    \/ CreateCustomer
    \/ AfterCustomer
    \/ ReassignNet
    \/ AfterReassign

SpecFlow == InitFlow /\ [][NextFlow]_vars

(***************************************************************************)
(* The command scenarios: `arin reassign simple` with --prefix-id (the     *)
(* workflow above) or with --aggregate-id (lines 302-322: the workflow is  *)
(* invoked for each prefix of the aggregate in turn).                      *)
(***************************************************************************)
MaxPrefixes == 2

\* the prefixes of an aggregate
BatchPrefixes ==
    {p \in Prefixes : p.family.str = "4" /\ p.role /= None}

\* the locals of arin_reassign_simple(prefix_id=..., replace_existing=...) when
\* ctx.invoke enters it
Invocation(replace_existing, parent_org_handle, origin_ases, prefix, aggregate) ==
    [replace_existing |-> replace_existing,
     parent_org_handle |-> parent_org_handle,
     origin_ases |-> origin_ases,
     prefix |-> prefix,
     original |-> prefix.custom_fields,
     aggregate |-> aggregate,
     parent_net_handle |-> None,
     raw |-> <<>>,
     arin_customer_payload |-> None,
     arin_customer_response |-> None,
     arin_net_payload |-> None,
     arin_net_response |-> None]

\* the command entered with --aggregate-id: the aggregate and its prefixes are
\* fetched (lines 303-304); index is the position of the `for` loop, invoked
\* the positions the workflow was invoked for, netbox the custom fields the
\* IPAM holds for each prefix
InitAggregate ==
    /\ pc = "loop"
    /\ self = None
    /\ doc = None
    /\ ret = Return(None)
    /\ http = <<>>
    /\ log = <<>>
    /\ flow = None
    /\ \E replace_existing \in BOOLEAN, parent_org_handle \in ParentOrgHandles,
          aggregate \in {a \in Aggregates : a /= None /\ a.fields.handle /= PyStr("")},
          prefixes \in [1..MaxPrefixes -> BatchPrefixes] :
        call = [name |-> "arin_reassign_simple",
                replace_existing |-> replace_existing,
                parent_org_handle |-> parent_org_handle,
                origin_ases |-> PyList(<< PyStr("AS64500") >>),
                aggregate |-> aggregate,
                prefixes |-> prefixes,
                index |-> 1,
                invoked |-> <<>>,
                netbox |-> [i \in 1..MaxPrefixes |-> prefixes[i].custom_fields]]

\* the command was entered with --aggregate-id
InAggregateMode == "prefixes" \in DOMAIN call

\* lines 306-320: why the loop passes over a prefix ("" when it does not)
SkipReason(replace_existing, prefix) ==
    IF HasHandle(replace_existing, prefix) THEN "already has an RIR Handle, skipping"
    ELSE IF ~Truthy(prefix.site) THEN "has no site, skipping"
    ELSE IF ~Truthy(prefix.tenant) THEN "has no tenant, skipping"
    ELSE ""

\* lines 305-322: one turn of the loop, up to `continue` or to the entry of the
\* invoked workflow; after the last prefix the command returns
Loop ==
    /\ pc = "loop"
    /\ IF call.index > Len(call.prefixes)
       THEN /\ pc' = "returned"
            /\ UNCHANGED <<call, log, flow>>
       ELSE LET prefix == call.prefixes[call.index]
                reason == SkipReason(call.replace_existing, prefix)
            IN IF reason /= ""
               THEN /\ log' = Append(log, Logged("info", reason))
                    /\ call' = [call EXCEPT !.index = @ + 1]
                    /\ pc' = "loop"
                    /\ flow' = flow
               ELSE /\ call' = [call EXCEPT !.invoked = Append(@, call.index)]
                    /\ flow' = Invocation(call.replace_existing, call.parent_org_handle,
                                          call.origin_ases, prefix, call.aggregate)
                    /\ pc' = "begin"
                    /\ log' = log
    /\ UNCHANGED <<self, doc, ret, http>>

\* the workflow returns: to the loop, which goes on with the next prefix, or
\* out of the command
Returned ==
    IF InAggregateMode
    THEN /\ pc' = "loop"
         /\ call' = [call EXCEPT !.index = @ + 1,
                                 !.netbox[call.index] = flow.prefix.custom_fields]
    ELSE /\ pc' = "returned"
         /\ call' = call

\* line 445 was passed, or the net was not to be created (line 406)
WorkflowReturns ==
    /\ pc = "done"
    /\ Returned
    /\ UNCHANGED <<self, doc, ret, http, log, flow>>

\* lines 447 and 449: ipdb.set_trace() stops the command until the operator
\* lets it continue, or quits the debugger (bdb.BdbQuit is raised)
Debugger ==
    /\ pc = "ipdb"
    /\ \E command \in {"continue", "quit"} :
        IF command = "continue"
        THEN Returned /\ ret' = ret
        ELSE pc' = "raised" /\ ret' = Raise("BdbQuit", "") /\ call' = call
    /\ UNCHANGED <<self, doc, http, log, flow>>

NextCommand ==
    \/ Loop
    \/ Begin
    \/ Geocode
    \/ CreateCustomer
    \/ AfterCustomer
    \/ ReassignNet
    \/ AfterReassign
    \/ WorkflowReturns
    \/ Debugger

InitCommand == InitFlow \/ InitAggregate

SpecCommand == InitCommand /\ [][NextCommand]_vars

(***************************************************************************)
(* The net name, lines 409-420, for prefixes of both families.  A network  *)
(* address is the text str(ip_network.network_address), kept as its groups *)
(* and the separators between them.                                        *)
(***************************************************************************)
\* ipaddress.ip_network(prefix.prefix): family, network address and prefix length
Networks ==
    { [version |-> 4, network_address |-> <<"10", ".", "1", ".", "1", ".", "0">>, prefixlen |-> 24],
      [version |-> 4, network_address |-> <<"10", ".", "1", ".", "1", ".", "0">>, prefixlen |-> 25],
      [version |-> 4, network_address |-> <<"192", ".", "0", ".", "2", ".", "128">>, prefixlen |-> 25],
      [version |-> 4, network_address |-> <<"198", ".", "51", ".", "100", ".", "0">>, prefixlen |-> 24],
      [version |-> 6, network_address |-> <<"2001", ":", "db8", ":", "1", "::">>, prefixlen |-> 48],
      [version |-> 6, network_address |-> <<"2001", ":", "db8", "::">>, prefixlen |-> 32],
      [version |-> 6, network_address |-> <<"2001", ":", "db8", "::">>, prefixlen |-> 48] }

\* prefix.family of a network: its value, and the text "%s" gives for the record
FamiliesOf(network) ==
    IF network.version = 4 THEN Families
    ELSE {[value |-> 6, str |-> "6"], [value |-> 6, str |-> "IPv6"]}

\* the prefixes the net name is built for
NamedPrefixes ==
    UNION { { [prefix |-> network, octets |-> Split(network.network_address, "."),
               prefixlen |-> network.prefixlen,
               family |-> family, role |-> role, tenant |-> tenant, site |-> site,
               custom_fields |-> [handle |-> None, registration_date |-> None, net_name |-> None],
               saved |-> 0] :
                family \in FamiliesOf(network), role \in Roles \ {None},
                tenant \in Tenants, site \in Sites } : network \in Networks }

InitNetName ==
    /\ pc = "start"
    /\ \E prefix \in NamedPrefixes : call = [name |-> "net_name", prefix |-> prefix]
    /\ self = None
    /\ doc = None
    /\ ret = Return(None)
    /\ Idle

\* lines 416-420
BuildNetName ==
    /\ pc = "start"
    /\ ret' = Return(PyStr(NetName(call.prefix)))
    /\ pc' = "done"
    /\ UNCHANGED <<call, self, doc, http, log, flow>>

NextNetName == BuildNetName

SpecNetName == InitNetName /\ [][NextNetName]_vars

(***************************************************************************)
(* The payload classes whose constructor checks an argument against an     *)
(* enumeration: PocLinkPayload (both payloads.py), DelegationKeyPayload,   *)
(* PhonePayload and MessagePayload (arin/payloads.py).                     *)
(***************************************************************************)
\* `x in (...)` for a list of strings, and for a tuple of integers
InStrings(x, strings) == x.ty = "str" /\ x.v \in strings
InInts(x, ints) == x.ty = "int" /\ x.n \in ints

\* the enumeration tested only for a truthy link_type, as NetBlockPayload does
PocLinkPayload__init___truthyOnly(poc_handle, link_type) ==
    IF Truthy(link_type) /\ ~InStrings(link_type, {"AD", "AB", "N", "T"})
    THEN Raise("PayloadException", "Invalid link_type")
    ELSE Return([ty |-> "PocLinkPayload", poc_handle |-> poc_handle, link_type |-> link_type])

\* PocLinkPayload.__init__(poc_handle, link_type)
PocLinkPayload__init__(poc_handle, link_type) ==
    IF ~InStrings(link_type, {"AD", "AB", "N", "T"})
    THEN Raise("PayloadException", "Invalid link_type")
    ELSE Return([ty |-> "PocLinkPayload", poc_handle |-> poc_handle, link_type |-> link_type])

\* the constructor without its second test
DelegationKeyPayload__init___digestTypeOnly(algorithm, digest, ttl, digestType, keyTag) ==
    IF ~InInts(digestType, {1, 2})
    THEN Raise("PayloadException", "Invalid digestType")
    ELSE Return([ty |-> "DelegationKeyPayload", algorithm |-> algorithm, digest |-> digest,
                 ttl |-> ttl, digestType |-> digestType, keyTag |-> keyTag])

\* DelegationKeyPayload.__init__(algorithm, digest, ttl, digestType, keyTag)
DelegationKeyPayload__init__(algorithm, digest, ttl, digestType, keyTag) ==
    IF ~InInts(digestType, {1, 2})
    THEN Raise("PayloadException", "Invalid digestType")
    ELSE IF ~InInts(algorithm, {5, 7, 8})
    THEN Raise("PayloadException", "Invalid algorithm")
    ELSE Return([ty |-> "DelegationKeyPayload", algorithm |-> algorithm, digest |-> digest,
                 ttl |-> ttl, digestType |-> digestType, keyTag |-> keyTag])

\* the code compared without regard to case
PhonePayload__init___anyCase(description, code, number, extension) ==
    IF ~InStrings(code, {"O", "F", "M", "o", "f", "m"})
    THEN Raise("PayloadException", "Invalid code")
    ELSE Return([ty |-> "PhonePayload", description |-> description, code |-> code,
                 number |-> number, extension |-> extension])

\* PhonePayload.__init__(description, code, number, extension=None)
PhonePayload__init__(description, code, number, extension) ==
    IF ~InStrings(code, {"O", "F", "M"})
    THEN Raise("PayloadException", "Invalid code")
    ELSE Return([ty |-> "PhonePayload", description |-> description, code |-> code,
                 number |-> number, extension |-> extension])

\* MessagePayload.__init__(subject, text, category="NONE", attachment=None)
MessagePayload__init__(subject, text, category, attachment) ==
    IF ~InStrings(category, {"NONE", "JUSTIFICATION"})
    THEN Raise("PayloadException", "Invalid category")
    ELSE Return([ty |-> "MessagePayload", subject |-> subject, text |-> text,
                 category |-> category, attachment |-> attachment])

\* the default of MessagePayload's category
MessagePayload_category == PyStr("NONE")

\* the arguments the constructors are called with
PocHandles == {PyStr("POC1-ARIN"), PyStr("")}
LinkTypes ==
    {None, PyInt(1)} \cup {PyStr(v) : v \in {"", "AD", "AB", "N", "T", "ad", "A", "TT", "ZZ"}}
DigestTypes == {None, PyStr("1")} \cup {PyInt(n) : n \in {0, 1, 2, 3}}
Algorithms == {None, PyStr("5")} \cup {PyInt(n) : n \in {0, 5, 6, 7, 8, 9}}
PhoneCodes == {None} \cup {PyStr(v) : v \in {"", "O", "F", "M", "o", "OF", "X"}}
PhoneDescriptions == {PyStr("Office"), PyStr("Mobile")}
Extensions == {None, PyStr("123")}
Categories == {None} \cup {PyStr(v) : v \in {"", "NONE", "JUSTIFICATION", "none", "OTHER"}}
Attachments == {None, PyStr("a.txt")}

InitEnumerated ==
    /\ pc = "start"
    /\ call = [name |-> "none"]
    /\ self = None
    /\ doc = None
    /\ ret = Return(None)
    /\ Idle

\* r is what the constructor gave: the object, or the exception
Constructed(r) ==
    /\ ret' = r
    /\ self' = IF r.ok THEN r.val ELSE None
    /\ pc' = IF r.ok THEN "built" ELSE "raised"
    /\ UNCHANGED <<doc, http, log, flow>>

NewPocLinkPayload ==
    /\ pc = "start"
    /\ \E poc_handle \in PocHandles, link_type \in LinkTypes :
        /\ call' = [name |-> "PocLinkPayload", poc_handle |-> poc_handle, link_type |-> link_type]
        /\ Constructed(PocLinkPayload__init__(poc_handle, link_type))

NewDelegationKeyPayload ==
    /\ pc = "start"
    /\ \E algorithm \in Algorithms, digestType \in DigestTypes :
        /\ call' = [name |-> "DelegationKeyPayload", algorithm |-> algorithm,
                    digestType |-> digestType]
        /\ Constructed(DelegationKeyPayload__init__(algorithm, PyStr("2BB183AF5F22588179A53B0A98631FAD1A292118"),
                                                    PyInt(86400), digestType, PyInt(264)))

NewPhonePayload ==
    /\ pc = "start"
    /\ \E description \in PhoneDescriptions, code \in PhoneCodes, extension \in Extensions :
        /\ call' = [name |-> "PhonePayload", description |-> description, code |-> code,
                    extension |-> extension]
        /\ Constructed(PhonePayload__init__(description, code, PyStr("+1-514-555-0100"), extension))

\* MessagePayload(subject, text), or MessagePayload(subject, text, category=...)
NewMessagePayload ==
    /\ pc = "start"
    /\ \E given \in BOOLEAN, category \in Categories, attachment \in Attachments :
        /\ call' = IF given
                   THEN [name |-> "MessagePayload", category |-> category, attachment |-> attachment]
                   ELSE [name |-> "MessagePayload", attachment |-> attachment]
        /\ Constructed(MessagePayload__init__(PyStr("Subject"), PyStr("Text"),
                                              IF given THEN category ELSE MessagePayload_category,
                                              attachment))

NextEnumerated ==
    \/ NewPocLinkPayload
    \/ NewDelegationKeyPayload
    \/ NewPhonePayload
    \/ NewMessagePayload

SpecEnumerated == InitEnumerated /\ [][NextEnumerated]_vars

(***************************************************************************)
(* Claims about the payload classes, under SpecPayload                     *)
(***************************************************************************)
Supplied(v) == v /= None

\* C1: NetBlockPayload(...) with both end_address and cidr_length supplied raises
\* the payload exception and yields no object, whatever the two values are
\* (cidr_length 0 included); with at most one of them supplied, and a net_type
\* that is absent or valid, it succeeds.
C1_BothRejected ==
    call.name = "NetBlockPayload" =>
        LET both == Supplied(call.args.end_address) /\ Supplied(call.args.cidr_length)
            typeOk == call.args.net_type = None \/ call.args.net_type.v \in valid_types
        IN /\ both => (~ret.ok /\ ret.exc = "PayloadException" /\ self = None)
           /\ (~both /\ typeOk) => (ret.ok /\ self = ret.val)

ExactlyOneHandle(p) == Supplied(p.org_handle) /= Supplied(p.customer_handle)

\* C2: a NetPayload given both org_handle and customer_handle, or neither, is
\* rejected with a validation error before it can be submitted: no such net is
\* ever constructed and serialized to a document; a net given exactly one of
\* the two (and a list of net blocks) is serialized.
C2_ExactlyOneHandleOrRejected ==
    (call.name = "str" /\ call.p.ty = "NetPayload") =>
        /\ ret.ok => ExactlyOneHandle(call.p)
        /\ (ExactlyOneHandle(call.p) /\ call.p.net_blocks /= None) => ret.ok

\* absent and empty read alike: None, '' and [] are one value
Blank(v) == IF v \in {None, PyStr(""), PyList(<<>>)} THEN None ELSE v

FieldsOf(p) == DOMAIN p \ {"ty"}

\* C3: from_xml(str(p)) of a CustomerPayload or NetPayload p returns a payload
\* whose every field equals that field of p (the origin AS list, the net block
\* list and the handle that is set included; an empty field may come back
\* absent).
C3_RoundTrip ==
    (call.name = "from_xml" /\ call.p /= None) =>
        /\ ret.ok
        /\ \A f \in FieldsOf(call.p) : Blank(ret.val[f]) = Blank(call.p[f])

Kids(e, tag) == SelectSeq(e.kids, LAMBDA k : k.tag = tag)

\* the attribute of a NetPayload that each optional child element of net is
\* written from
NetOptional ==
    { <<"comment", "comment">>, <<"handle", "handle">>,
      <<"registration_date", "registrationDate">>,
      <<"org_handle", "orgHandle">>, <<"customer_handle", "customerHandle">> }

\* C4: in a serialized NetPayload a field that is None has no element at all
\* and a field that is '' has an empty element: comment=None gives no comment
\* element, comment='' gives a comment element holding one empty line numbered 0.
C4_NoneOmittedEmptyEmitted ==
    (call.name = "str" /\ call.p.ty = "NetPayload" /\ ret.ok) =>
        /\ \A ft \in NetOptional :
              /\ call.p[ft[1]] = None => Kids(doc.root, ft[2]) = <<>>
              /\ call.p[ft[1]] = PyStr("") => Len(Kids(doc.root, ft[2])) = 1
        /\ call.p.comment = PyStr("") =>
              Kids(doc.root, "comment") =
                  << Element("comment", <<>>,
                             << Element("line", << <<"number", "0">> >>, <<>>, "") >>, "") >>

HasRoot(xml, tag) == xml.ty = "xml" /\ xml.root.tag = tag

\* C5: from_xml fails when the document's root is not the class's element, and
\* succeeds for every document with that root whatever children are missing.
C5_OnlyTheRootIsRequired ==
    (call.name = "from_xml" /\ call.p = None) =>
        (ret.ok <=> HasRoot(doc, RootTag(call.cls)))


(***************************************************************************)
(* Claims about the registry client, under SpecClient                      *)
(***************************************************************************)
ClientCalls ==
    {"_api_query", "create_recipient_customer", "reassign_net", "get_customer",
     "delete_customer", "modify_customer"}

\* the call at hand was answered with a status other than 200
AnsweredWithError ==
    /\ call.name \in ClientCalls
    /\ http /= <<>>
    /\ http[Len(http)].response.status_code /= 200

InvalidArgs ==
    /\ call.name = "_api_query"
    /\ call.method.v \notin {"GET", "POST", "PUT", "DELETE"}
       \/ call.return_type.v \notin {"xml", "json", "html", "plain"}

MediaType(t) ==
    CASE t = "json" -> "application/json"
      [] t = "html" -> "text/html"
      [] t = "plain" -> "text/plain"
      [] t = "xml" -> "application/xml"

Header(request, name) ==
    LET hs == SelectSeq(request.headers, LAMBDA h : h[1] = name)
    IN IF hs = <<>> THEN None ELSE PyStr(hs[1][2])

\* C8: for every valid (method, return type) pair _api_query sends one request;
\* it carries the API key, an Accept header of the return type's media type,
\* for POST and PUT the Content-Type application/xml and the payload as body,
\* for GET and DELETE no body.
C8_RequestShape ==
    (call.name = "_api_query" /\ ~InvalidArgs) =>
        /\ Len(http) = 1
        /\ LET request == http[1].request
           IN /\ request.apikey = ApiKey
              /\ request.method = call.method.v
              /\ Header(request, "Accept") = PyStr(MediaType(call.return_type.v))
              /\ request.method \in {"POST", "PUT"} =>
                    /\ Header(request, "Content-Type") = PyStr("application/xml")
                    /\ request.data = call.payload
              /\ request.method \in {"GET", "DELETE"} => request.data = None

(***************************************************************************)
(* Claims about the reassignment of one prefix, under SpecFlow             *)
(***************************************************************************)

\* the registry requests of the workflow, by the resource they address
IsCreateCustomer(request) ==
    request.url = "https://www.arin.net/rest/net/" \o Unicode(flow.parent_net_handle) \o "/customer"
IsReassignNet(request) ==
    request.url = "https://www.arin.net/rest/net/" \o Unicode(flow.parent_net_handle) \o "/reassign"

\* the prefix has no tenant or no site, or its aggregate has no RIR handle
MissingPrecondition ==
    \/ ~Truthy(flow.prefix.tenant)
    \/ ~Truthy(flow.prefix.site)
    \/ flow.aggregate.ty = "None"
    \/ ~Truthy(flow.aggregate.fields.handle)

PrefixUntouched ==
    /\ flow.prefix.custom_fields = flow.original
    /\ flow.prefix.saved = 0

\* C9: when the prefix has no tenant or no site, or its aggregate has no RIR
\* handle, the run ends in lines 324-368 (an exit, or the exception of a
\* missing aggregate): no request is ever sent to the registry and the
\* prefix's custom fields stay as they were and are never saved.
C9_AbortsBeforeAnyRequest ==
    MissingPrecondition =>
        /\ pc \in {"begin", "exit", "raised"}
        /\ http = <<>>
        /\ PrefixUntouched

\* a run that got past the settings and the existing-handle check and exited
\* because the aggregate has no RIR handle
C9_Witness ==
    /\ pc = "exit"
    /\ Truthy(flow.parent_org_handle)
    /\ ~HasHandle(flow.replace_existing, flow.prefix)
    /\ flow.aggregate.ty = "Record"
    /\ ~Truthy(flow.aggregate.fields.handle)
    /\ Truthy(flow.prefix.tenant)
    /\ Truthy(flow.prefix.site)
    /\ http = <<>>

\* the answer to a customer creation that succeeded: status 200 with a body
Succeeded(response) ==
    /\ response /= NoResponse
    /\ response.status_code = 200
    /\ Truthy(response.text)

\* C10: every reassign_net request of a run comes after a create_recipient_customer
\* request of the same run that was answered with status 200 and a body; and
\* once a customer creation got no answer, or an answer that is not such a
\* success, the run sends no reassign_net request.
C10_ReassignOnlyAfterCustomer ==
    /\ \A i \in 1..Len(http) :
          IsReassignNet(http[i].request) =>
              \E j \in 1..(i - 1) : /\ IsCreateCustomer(http[j].request)
                                    /\ Succeeded(http[j].response)
    /\ (\E j \in 1..Len(http) : /\ IsCreateCustomer(http[j].request)
                                /\ ~Succeeded(http[j].response))
          => \A i \in 1..Len(http) : ~IsReassignNet(http[i].request)

\* a run that sent the reassign_net request after its customer was created
C10_Witness ==
    /\ Len(http) = 2
    /\ IsCreateCustomer(http[1].request)
    /\ Succeeded(http[1].response)
    /\ IsReassignNet(http[2].request)
    /\ pc = "net_response"

\* a run that stopped after a failed customer creation
C10_WitnessFailed ==
    /\ Len(http) = 1
    /\ IsCreateCustomer(http[1].request)
    /\ ~Succeeded(http[1].response)
    /\ pc \in {"ipdb", "raised"}

\* both registry calls of the run were answered with success and the answer
\* to the reassignment is a ticket that holds a net
FullSuccess ==
    /\ Len(http) = 2
    /\ IsCreateCustomer(http[1].request) /\ Succeeded(http[1].response)
    /\ IsReassignNet(http[2].request) /\ Succeeded(http[2].response)
    /\ \E ticket \in {TicketedRequestPayload_from_xml(http[2].response.text)} :
          /\ ticket.ok
          /\ ticket.val.ty = "NetPayload"
          /\ flow.prefix.custom_fields =
                [handle |-> ticket.val.handle,
                 registration_date |-> ticket.val.registration_date,
                 net_name |-> ticket.val.net_name]

\* C11: the prefix's three custom fields are written, and the prefix saved
\* (once), only at the end of a run in which the customer creation and the
\* reassignment both succeeded and the ticket was unwrapped; in every other
\* state of every run (precondition failure, geocode failure, customer
\* failure, reassign failure, unparsable response) the custom fields are as
\* they were and save was never called.
C11_WrittenOnlyOnFullSuccess ==
    \/ PrefixUntouched
    \/ /\ pc = "done"
       /\ flow.prefix.saved = 1
       /\ FullSuccess

\* a run that wrote the ticket's handle back and saved the prefix
C11_Witness ==
    /\ pc = "done"
    /\ flow.prefix.saved = 1
    /\ flow.prefix.custom_fields.handle = PyStr("NET-10-1-1-0-1")
    /\ flow.prefix.custom_fields /= flow.original

(***************************************************************************)
(* Claims about the command in aggregate mode, under SpecCommand           *)
(***************************************************************************)

\* the settings and the aggregate allow the reassignment of its prefixes
Configured ==
    /\ Truthy(call.parent_org_handle)
    /\ Truthy(call.aggregate.fields.handle)

\* C12, as stated: in aggregate mode the failure of one prefix's workflow is
\* logged and the loop goes on, so the command never ends with an exception
\* while a later prefix of the aggregate has not been reached.
C12_FailureDoesNotStopBatch ==
    (InAggregateMode /\ Configured /\ pc \in {"exit", "raised"}) =>
        call.index >= Len(call.prefixes)

\* the prefix at position i of the aggregate carries an RIR handle and
\* replacement was not requested
Handled(i) == HasHandle(call.replace_existing, call.prefixes[i])

\* C13, as stated: a prefix that carries an RIR handle, with no replacement
\* requested, never makes the command terminate with an error exit, in
\* single-prefix mode too.
C13_NeverAnErrorExit ==
    (~InAggregateMode /\ Truthy(flow.parent_org_handle)
        /\ ~flow.replace_existing /\ Truthy(flow.original.handle)) =>
        pc /= "exit"

\* C13, amended: a prefix that carries a non-empty RIR handle, with no
\* replacement requested, gets no geocoding and no registry request and keeps
\* its custom fields. In aggregate mode the loop passes over it with an info
\* message and goes on; in single-prefix mode the command logs an error and
\* exits with status 1. With replacement requested the existing handle stops
\* neither the loop from invoking the workflow nor the workflow from running.
C13_SkippedOrExited ==
    IF InAggregateMode
    THEN /\ \A i \in 1..Len(call.prefixes) :
               Handled(i) =>
                   /\ \A k \in 1..Len(call.invoked) : call.invoked[k] /= i
                   /\ call.netbox[i] = call.prefixes[i].custom_fields
                   /\ call.index > i =>
                         \E k \in 1..Len(log) :
                             /\ "level" \in DOMAIN log[k]
                             /\ log[k] = Logged("info", "already has an RIR Handle, skipping")
         /\ call.replace_existing =>
               \A i \in 1..(call.index - 1) :
                   (Truthy(call.prefixes[i].site) /\ Truthy(call.prefixes[i].tenant)) =>
                       \E k \in 1..Len(call.invoked) : call.invoked[k] = i
    ELSE /\ (~flow.replace_existing /\ Truthy(flow.original.handle)) =>
               /\ pc \in {"begin", "exit"}
               /\ pc = "exit" => (ret = Exit(1) /\ log /= <<>> /\ log[Len(log)].level = "error")
               /\ http = <<>>
               /\ PrefixUntouched
         /\ (flow.replace_existing /\ Truthy(flow.original.handle) /\ pc = "exit") =>
               (~Truthy(flow.parent_org_handle) \/ MissingPrecondition)

\* the command, asked for one prefix that carries a handle, exited with an
\* error for that reason
C13_Witness ==
    /\ ~InAggregateMode
    /\ pc = "exit"
    /\ Truthy(flow.parent_org_handle)
    /\ ~flow.replace_existing
    /\ Truthy(flow.original.handle)

\* the loop passed over a prefix that carries a handle and then invoked the
\* workflow for the next one
C13_WitnessSkipped ==
    /\ InAggregateMode
    /\ Handled(1)
    /\ call.invoked = << 2 >>

\* with replacement requested, the workflow ran to its end for a prefix that
\* carried a handle
C13_WitnessReplaced ==
    /\ pc = "done"
    /\ flow.replace_existing
    /\ Truthy(flow.original.handle)
    /\ flow.prefix.saved = 1

\* the groups of a network address: its text without the separators
RECURSIVE Groups(_)
Groups(text) ==
    IF text = <<>> THEN <<>>
    ELSE IF Head(text) \in {".", ":", "::"} THEN Groups(Tail(text))
    ELSE << Head(text) >> \o Groups(Tail(text))

Digit(n) == IF n = 4 THEN "4" ELSE "6"

\* C14: the net name built for a prefix is "CUST-", the address family (4 or
\* 6), a hyphen, and the groups of the network address joined by hyphens:
\* "CUST-4-10-1-1-0" for 10.1.1.0/24; it depends on the family and the network
\* address alone.
C14_NetName ==
    (call.name = "net_name" /\ pc = "done") =>
        ret = Return(PyStr("CUST-" \o Digit(call.prefix.prefix.version) \o "-"
                               \o Join("-", Groups(call.prefix.prefix.network_address))))

\* C15: with end_address and cidr_length not both set, NetBlockPayload(...)
\* succeeds if and only if net_type is absent or one of the 19 codes; any other
\* supplied value fails with the payload exception.
C15_NetTypeEnumerated ==
    (call.name = "NetBlockPayload"
        /\ ~(Supplied(call.args.end_address) /\ Supplied(call.args.cidr_length))) =>
        LET typeOk == call.args.net_type = None \/ call.args.net_type.v \in valid_types
        IN  /\ ret.ok <=> typeOk
            /\ ~ret.ok => ret.exc = "PayloadException"

\* C16: PocLinkPayload(poc_handle, link_type) succeeds if and only if link_type
\* is one of AD, AB, N, T; otherwise it raises the payload exception, and no
\* PocLinkPayload object holds a link_type outside the enumeration.
C16_LinkTypeEnumerated ==
    /\ call.name = "PocLinkPayload" =>
          /\ ret.ok <=> call.link_type \in {PyStr("AD"), PyStr("AB"), PyStr("N"), PyStr("T")}
          /\ ~ret.ok => (ret.exc = "PayloadException" /\ self = None)
    /\ self.ty = "PocLinkPayload" => self.link_type.v \in {"AD", "AB", "N", "T"}

C16_Witness ==
    /\ call.name = "PocLinkPayload"
    /\ call.link_type = PyStr("ZZ")
    /\ pc = "raised"
    /\ ret = Raise("PayloadException", "Invalid link_type")

C16_WitnessBuilt ==
    /\ pc = "built"
    /\ self.ty = "PocLinkPayload"
    /\ self.link_type = PyStr("AB")

\* C17: DelegationKeyPayload(algorithm, digest, ttl, digestType, keyTag)
\* succeeds if and only if digestType is 1 or 2 and algorithm is 5, 7 or 8;
\* otherwise it raises the payload exception.
C17_DigestTypeAndAlgorithmEnumerated ==
    call.name = "DelegationKeyPayload" =>
        /\ ret.ok <=> /\ call.digestType \in {PyInt(1), PyInt(2)}
                      /\ call.algorithm \in {PyInt(5), PyInt(7), PyInt(8)}
        /\ ~ret.ok => (ret.exc = "PayloadException" /\ self = None)
        /\ ret.ok => (self.digestType = call.digestType /\ self.algorithm = call.algorithm)

C17_Witness ==
    /\ call.name = "DelegationKeyPayload"
    /\ call.digestType = PyInt(2)
    /\ call.algorithm = PyInt(6)
    /\ ret = Raise("PayloadException", "Invalid algorithm")

C17_WitnessBuilt ==
    /\ pc = "built"
    /\ self.ty = "DelegationKeyPayload"
    /\ self.digestType = PyInt(1)
    /\ self.algorithm = PyInt(8)

\* C18: PhonePayload(...) succeeds if and only if code is one of O, F, M;
\* MessagePayload(...) succeeds if and only if category is NONE or
\* JUSTIFICATION, NONE being the category when none is given; any other value
\* raises the payload exception.
C18_CodeAndCategoryEnumerated ==
    /\ call.name = "PhonePayload" =>
          /\ ret.ok <=> call.code \in {PyStr("O"), PyStr("F"), PyStr("M")}
          /\ ~ret.ok => (ret.exc = "PayloadException" /\ self = None)
          /\ ret.ok => self.code = call.code
    /\ call.name = "MessagePayload" =>
          /\ ret.ok <=> \/ "category" \notin DOMAIN call
                        \/ call.category \in {PyStr("NONE"), PyStr("JUSTIFICATION")}
          /\ ~ret.ok => (ret.exc = "PayloadException" /\ self = None)
          /\ ret.ok => self.category = IF "category" \in DOMAIN call THEN call.category
                                       ELSE PyStr("NONE")

C18_Witness ==
    /\ call.name = "PhonePayload"
    /\ call.code = PyStr("o")
    /\ ret = Raise("PayloadException", "Invalid code")

C18_WitnessDefault ==
    /\ call.name = "MessagePayload"
    /\ "category" \notin DOMAIN call
    /\ pc = "built"
    /\ self.category = PyStr("NONE")

C18_WitnessCategory ==
    /\ call.name = "MessagePayload"
    /\ "category" \in DOMAIN call
    /\ call.category = PyStr("OTHER")
    /\ ret = Raise("PayloadException", "Invalid category")

CreateCalls == {"create_recipient_customer", "create_recipient_org", "create_org", "create_poc"}

\* C19: create_recipient_customer(parent_net_handle, customer_payload) issues
\* a POST to /net/{parent_net_handle}/customer whose body is the serialized
\* customer payload; the other create operations that take a payload send it
\* as the body of a POST too.
C19_CreateSendsPayload ==
    (call.name \in CreateCalls /\ pc \in {"returned", "raised"}) =>
        /\ Len(http) = 1
        /\ http[1].request.method = "POST"
        /\ http[1].request.data = Format(call.payload).val
        /\ call.name = "create_recipient_customer" =>
              http[1].request.url = "https://www.arin.net/rest/net/NET-10-0-0-0-1/customer"

\* the originAS elements of a serialized net, in document order
OriginASElements(net) ==
    LET originASes == Kids(net, "originASes")
    IN  IF originASes = <<>> THEN <<>> ELSE Kids(originASes[1], "originAS")

\* C20: a NetPayload whose origin_ases lists n origin AS numbers is serialized
\* with exactly n originAS elements inside originASes, one per entry and in the
\* order of the list.
C20_OneElementPerOriginAS ==
    (call.name = "str" /\ call.p.ty = "NetPayload" /\ ret.ok) =>
        LET origin_ases == IF call.p.origin_ases.ty = "list" THEN call.p.origin_ases.items
                           ELSE <<>>
        IN  OriginASElements(doc.root) =
                [i \in 1..Len(origin_ases) |-> Element("originAS", <<>>, <<>>, origin_ases[i].v)]

\* the customer the registry's answer to create_recipient_customer parses to
ParsedCustomer == CustomerPayload_from_xml(flow.arin_customer_response)

\* C21: every net the workflow passes to reassign_net has customer_handle equal
\* to the handle parsed from the customer-creation response and org_handle
\* unset, so that exactly one of the two is set in every submitted net, whatever
\* the successful customer-creation response holds in its handle element.
C21_SubmittedNetHasCustomerHandleOnly ==
    \A i \in 1..Len(http) :
        IsReassignNet(http[i].request) =>
            /\ ParsedCustomer.ok
            /\ flow.arin_net_payload.customer_handle = ParsedCustomer.val.handle
            /\ flow.arin_net_payload.org_handle = None
            /\ ExactlyOneHandle(flow.arin_net_payload)

Tags(elements) == [i \in 1..Len(elements) |-> elements[i].tag]

\* C22: the children of a serialized customer appear in the order customerName,
\* iso3166-1 (with name, code2, code3, e164 in that order), handle,
\* streetAddress, city, iso3166-2, postalCode, comment, parentOrgHandle,
\* registrationDate, privateCustomer, and the iso3166-1 children carry the
\* country values given at construction.
C22_CustomerElementOrder ==
    (call.name = "str" /\ call.p.ty = "CustomerPayload" /\ ret.ok) =>
        /\ Tags(doc.root.kids) =
              << "customerName", "iso3166-1", "handle", "streetAddress", "city", "iso3166-2",
                 "postalCode", "comment", "parentOrgHandle", "registrationDate",
                 "privateCustomer" >>
        /\ \A country \in Kids(doc.root, "iso3166-1") :
              /\ Tags(country.kids) = << "name", "code2", "code3", "e164" >>
              /\ \A f \in {<<"name", "iso3166_1_name">>, <<"code2", "iso3166_1_code2">>,
                           <<"code3", "iso3166_1_code3">>, <<"e164", "iso3166_1_e164">>} :
                    Kids(country, f[1]) = << Element(f[1], <<>>, <<>>, call.p[f[2]].v) >>

\* C23: every invocation of a client operation issues at most one HTTP
\* request, and exactly one when the method and the format are valid, whatever
\* the response status.
C23_SingleAttempt ==
    (call.name \in ClientCalls \cup CreateCalls /\ pc \in {"returned", "raised"}) =>
        /\ Len(http) <= 1
        /\ ~InvalidArgs => Len(http) = 1

\* C23, for the workflow: one prefix workflow issues at most one
\* create-customer request and at most one reassign request.
C23_WorkflowSingleAttempt ==
    flow /= None =>
        /\ Cardinality({i \in 1..Len(http) : IsCreateCustomer(http[i].request)}) <= 1
        /\ Cardinality({i \in 1..Len(http) : IsReassignNet(http[i].request)}) <= 1
        /\ Len(http) <= 2

\* the net elements embedded in the ticket the registry answered with
EmbeddedNets ==
    IF flow.arin_net_response.ty = "xml" /\ flow.arin_net_response.root.tag = "ticketedRequest"
    THEN Kids(flow.arin_net_response.root, "net")
    ELSE <<>>

\* the text of e's child element `tag` as a parser reads it
ChildText(e, tag) ==
    LET found == Kids(e, tag)
    IN  IF found = <<>> \/ found[1].text = "" THEN None ELSE PyStr(found[1].text)

\* C24: a ticketedRequest that embeds a net parses to a NetPayload whose handle,
\* registration_date and net_name are the handle, registrationDate and netName
\* elements of that net, and these three values are what the workflow writes to
\* the prefix's RIR Handle, RIR registration date and RIR Net Name fields.
C24_TicketNetWrittenBack ==
    /\ flow.prefix.saved > 0 =>
          /\ Len(EmbeddedNets) = 1
          /\ TicketedRequestPayload_from_xml(flow.arin_net_response).ok
          /\ \A f \in {<<"handle", "handle">>, <<"registration_date", "registrationDate">>,
                       <<"net_name", "netName">>} :
                /\ TicketedRequestPayload_from_xml(flow.arin_net_response).val[f[1]]
                      = ChildText(EmbeddedNets[1], f[2])
                /\ flow.prefix.custom_fields[f[1]] = ChildText(EmbeddedNets[1], f[2])
    /\ (flow.arin_net_response = Ticket(<< FullNet >>) /\ pc /= "net_response") =>
          (pc = "done" /\ flow.prefix.saved = 1)

C24_Witness ==
    /\ pc = "done"
    /\ flow.arin_net_response = Ticket(<< FullNet >>)
    /\ flow.original.handle = PyStr("NET-10-1-1-0-0")
    /\ flow.prefix.custom_fields =
          [handle |-> PyStr("NET-10-1-1-0-1"), registration_date |-> PyStr("2019-05-01"),
           net_name |-> PyStr("CUST-4-10-1-1-0")]

\* the registry answered the reassignment with a ticket that embeds no net
TicketWithoutNet ==
    /\ flow.arin_net_response.ty = "xml"
    /\ flow.arin_net_response.root.tag = "ticketedRequest"
    /\ EmbeddedNets = <<>>

\* C25: parsing a ticketedRequest whose embedded payload is not a net raises an
\* explicit error, it returns neither a payload nor an empty result, and the
\* workflow writes no prefix field from such a ticket.
C25_TicketWithoutNetIsAnError ==
    TicketWithoutNet =>
        /\ ~TicketedRequestPayload_from_xml(flow.arin_net_response).ok
        /\ PrefixUntouched

\* the site's address was geocoded: flow.raw holds the geocoder's candidates
Geocoded == flow.parent_net_handle /= None /\ pc /= "geocode"

\* the positions of the candidates whose types are all expected
Matching == {i \in 1..Len(flow.raw) : flow.raw[i].types \subseteq DEFAULT_TYPES}

FirstMatching == flow.raw[CHOOSE i \in Matching : \A j \in Matching : i <= j]

\* C26: GeocodeResult.location is the first candidate, in list order, whose set
\* of types is a subset of the expected types, whatever candidates come before
\* it; it raises GeocodeResultError exactly when no candidate is one, and the
\* workflow then issues no registry request.
C26_FirstMatchingCandidate ==
    Geocoded =>
        /\ Matching = {} =>
              /\ GeocodeResult_location(flow.raw, DEFAULT_TYPES).ok = FALSE
              /\ pc = "raised"
              /\ ret = Raise("GeocodeResultError", "No valid location of the types")
              /\ http = <<>>
        /\ Matching /= {} =>
              /\ GeocodeResult_location(flow.raw, DEFAULT_TYPES) = Return(FirstMatching)
              /\ ~(pc = "raised" /\ ret.exc = "GeocodeResultError")
              /\ flow.arin_customer_payload /= None =>
                    \E i \in 1..Len(FirstMatching.address_components) :
                        /\ FirstMatching.address_components[i].first_type = "postal_code"
                        /\ flow.arin_customer_payload.postal_code =
                              PyStr(FirstMatching.address_components[i].long_name)

C26_Witness ==
    /\ Geocoded
    /\ flow.raw = << LocalityCandidate >>
    /\ pc = "raised"
    /\ ret.exc = "GeocodeResultError"
    /\ http = <<>>

\* a candidate of another type comes first and the one behind it is taken
C26_WitnessNotShadowed ==
    /\ Geocoded
    /\ flow.raw = << LocalityCandidate, StreetCandidate >>
    /\ flow.arin_customer_payload /= None
    /\ flow.arin_customer_payload.street_address = PyStr("1 Main Street")

\* the first of two matching candidates is taken, though it lacks a postal code
C26_WitnessFirstOfTwo ==
    /\ Geocoded
    /\ flow.raw = << PremiseCandidate, StreetCandidate >>
    /\ pc = "raised"
    /\ ret = Raise("KeyError", "postal_code")

\* handle and registration_date of payload p are empty
ServerFieldsEmpty(p) == ~Truthy(p.handle) /\ ~Truthy(p.registration_date)

\* C27: in every workflow the customer given to create_recipient_customer and
\* the net given to reassign_net have handle and registration_date empty, in the
\* payload objects and in every document sent; only the payloads parsed from
\* the registry's answers hold a value there.
C27_ServerFieldsEmptyOnSubmit ==
    /\ flow.arin_customer_payload /= None => ServerFieldsEmpty(flow.arin_customer_payload)
    /\ flow.arin_net_payload /= None => ServerFieldsEmpty(flow.arin_net_payload)
    /\ \A i \in 1..Len(http) :
          http[i].request.data.ty = "xml" =>
              /\ ChildText(http[i].request.data.root, "handle") = None
              /\ ChildText(http[i].request.data.root, "registrationDate") = None

\* a net was submitted for a prefix that held a handle, and the registry
\* answered with the handle it assigned
C27_Witness ==
    /\ pc = "done"
    /\ flow.replace_existing
    /\ flow.original.handle = PyStr("NET-10-1-1-0-0")
    /\ Len(http) = 2
    /\ http[2].request.data.ty = "xml"
    /\ http[2].request.data.root.tag = "net"
    /\ TicketedRequestPayload_from_xml(flow.arin_net_response).val.handle = PyStr("NET-10-1-1-0-1")

\* C28: computing the schema or the string form of a payload leaves every one
\* of its fields with the value it had before, origin_ases=None and
\* poc_links=None included.
C28_SerializationLeavesFieldsUnchanged ==
    call.name = "str" => self = call.p

\* C29: create_roa accepts each of the resource classes AR, AP, RN, LN and AF,
\* issuing its request to /roa/{org_handle};resourceClass={class}, and rejects
\* every other resource_class with a PayloadException raised to the caller
\* before any request is issued.
C29_ResourceClasses ==
    call.name = "create_roa" =>
        IF call.resource_class \in {"AR", "AP", "RN", "LN", "AF"}
        THEN /\ Len(http) = 1
             /\ http[1].request.url =
                   "https://www.arin.net/rest/roa/ORG-1;resourceClass=" \o call.resource_class
        ELSE /\ ret = Raise("PayloadException", "Invalid resource_class")
             /\ http = <<>>

\* the setting the workflow's origin AS list was read from
OriginASValue == CHOOSE value \in OriginASValues : arin_origin_ases(value) = flow.origin_ases

\* the non-empty values of a setting
NonEmptyValues(value) == SelectSeq(value, LAMBDA piece : piece \notin {",", ""})

\* C30: the number of origin AS entries handed to the NetPayload is the number
\* of non-empty comma-separated values of the origin_ases setting, and with the
\* empty setting the net submitted contains no originAS element.
C30_OriginASesOfSetting ==
    flow.arin_net_payload /= None =>
        /\ Len(flow.arin_net_payload.origin_ases.items) = Len(NonEmptyValues(OriginASValue))
        /\ \A i \in 1..Len(http) :
              (IsReassignNet(http[i].request) /\ OriginASValue = <<>>) =>
                  OriginASElements(http[i].request.data.root) = <<>>

====
